---------------------------- MODULE Spec2Model ----------------------------
(***************************************************************************)
(* Verification model of cran (the-agent-c-ai/cran): the Plan/Builder      *)
(* model of package sdk, the multi-platform sync engine of internal/sync   *)
(* and the manifest-list construction of internal/registry.                *)
(*                                                                         *)
(* The specifications of the module share its variables:                  *)
(*   Spec        the plan: builder Build() calls, then Plan.Execute        *)
(*   RunSpec     plans executed under a context that can be cancelled,     *)
(*               with syncs that were handed a scan                        *)
(*   BuilderSpec the builders over set, unset and undeclared arguments     *)
(*   SyncSpec    one Syncer.SyncImage call against a source and a          *)
(*               destination registry                                      *)
(*   ExecSpec    Sync.execute of one Sync, a first and a second time       *)
(*   PmlSpec     Client.PushManifestList applied to one platform map       *)
(*               under two map iteration orders                            *)
(*   ExistsSpec  one Client.CheckExists call                               *)
(*   ScanSpec    the check loop of Scan.execute                            *)
(*   VersionSpec the functions of internal/version                         *)
(*   AuditSpec   Auditor.AuditImage for an Audit's rule set                *)
(*   StripSpec   stripTag applied to a reference, and to its result        *)
(*   InstallerSpec                                                         *)
(*               goroutines calling Installer.Ensure for one tool          *)
(***************************************************************************)
EXTENDS Integers, Sequences, FiniteSets, TLC

VARIABLES
    \* ---- the plan (sdk) ----
    images,      \* the Image objects of the plan file: id -> [name, version, digest]
    plan,        \* Plan: the resource collections, each in registration order
    exec,        \* per collection, per resource: "pending" | "running" | "ok" | [err |-> ..]
    active,      \* the resources whose execute has been entered and has not returned
    phase,       \* "assembling" | "executing" | "done" | "fatal" (log.Fatal: os.Exit)
    pos,         \* Plan.Execute's position: [stage |-> 1..5, idx |-> index in the stage]
    result,      \* what Plan.Execute returned: "none" | "nil" | [err |-> ..]
    fatalMsg,    \* the message of the log.Fatal that ended the process, "" if none
    scannerCalls,\* the scans (indices of plan.scans) for which trivy was invoked
    vcTrace,     \* what the version checks did: pairs <<index in plan.versionChecks, event>>
    ctx,         \* the context handed to Plan.Execute: "live" | "cancelled"
    \* ---- the sync engine (internal/sync, internal/registry) ----
    srcReg,      \* what the source registry holds at srcImage: an image or an index
    dstReg,      \* the destination registry: reference -> content
    dstForged,   \* whether the destination answers digest queries with a forged value
    sy,          \* the SyncImage call: its arguments, position, locals and return
    calls,       \* the registry operations SyncImage made so far, in order
    \* ---- PushManifestList under two iteration orders ----
    pml,         \* [images, orders, out]: one platform map, two orders, two results
    \* ---- single calls of internal/registry, sdk and internal/version ----
    ce,          \* one Client.CheckExists call: the reference, the answer, the return
    sc,          \* one Scan.execute after the digest check: checks, findings, position
    ver,         \* one Checker.CheckVersion call: tags, current version, position, return
    au,          \* one Auditor.AuditImage call: rule set, dockle's findings, the result
    st,          \* one stripTag call and a second one on its result
    ins          \* one tools.Installer and the goroutines that call its Ensure

planVars ==
    <<images, plan, exec, active, phase, pos, result, fatalMsg, scannerCalls, vcTrace,
      ctx>>

engineVars == <<srcReg, dstReg, dstForged, sy, calls>>

callVars == <<pml, ce, sc, ver, au, st, ins>>

vars == <<planVars, engineVars, callVars>>

Nil == "nil"

\* The nil *Scan.
NoScan == 0

(***************************************************************************)
(* Bounds of the model.                                                    *)
(***************************************************************************)
\* The most resources (of all kinds together) the plan file registers.
MaxResources == 3

(***************************************************************************)
(* Images (sdk Image): the plan file builds its images with                *)
(* NewImage(name).Version(..).Digest(..).Build() before it uses them.      *)
(* One image per combination of version set / unset and digest set /       *)
(* unset, as in the example plan.                                          *)
(***************************************************************************)
ImageIds == {"pinned", "digestOnly", "tagged", "bare"}

NewImage(name, version, digest) ==
    [name |-> name, version |-> version, digest |-> digest]

PlanImages ==
    [i \in ImageIds |->
        CASE i = "pinned"     -> NewImage("timberio/vector", "0.50.0", "sha256:aa")
          [] i = "digestOnly" -> NewImage("ghcr.io/org/example", "", "sha256:bb")
          [] i = "tagged"     -> NewImage("myorg/example", "latest", "")
          [] i = "bare"       -> NewImage("myorg/bare", "", "")]

\* Image.tagRef and Image.digestRef: Nil stands for the log.Fatal they end in.
tagRef(img) ==
    IF img.version = "" THEN Nil ELSE img.name \o ":" \o img.version

digestRef(img) ==
    IF img.digest = "" THEN Nil ELSE img.name \o "@" \o img.digest

\* Platform constants.
PlatformAMD64 == "linux/amd64"
PlatformARM64 == "linux/arm64"


(***************************************************************************)
(* The plan (sdk/plan.go).                                                 *)
(***************************************************************************)
\* NewPlan: every collection empty.
NewPlan ==
    [buildNodes |-> <<>>, versionChecks |-> <<>>, syncs |-> <<>>, builds |-> <<>>,
     scans |-> <<>>, audits |-> <<>>]

\* Plan.Execute calls the five execute* loops in this order.
StageOrderSyncsLast ==
    <<"versionChecks", "builds", "scans", "audits", "syncs">>

StageOrder ==
    <<"versionChecks", "syncs", "builds", "scans", "audits">>

\* The collections Execute runs.
Kinds == {"versionChecks", "syncs", "builds", "scans", "audits"}

Registered ==
    Len(plan.versionChecks) + Len(plan.syncs) + Len(plan.builds)
        + Len(plan.scans) + Len(plan.audits)

Pending == [st |-> "pending", err |-> ""]
Running == [st |-> "running", err |-> ""]
Ok      == [st |-> "ok", err |-> ""]
Failed(msg) == [st |-> "err", err |-> msg]

NotReturned == [st |-> "none", err |-> ""]
ReturnedNil == [st |-> "nil", err |-> ""]

\* No SyncImage call and no PushManifestList call is under way.
EngineIdle ==
    /\ srcReg = Nil
    /\ dstReg = <<>>
    /\ dstForged = FALSE
    /\ sy = Nil
    /\ calls = <<>>

PmlIdle == pml = Nil

CeIdle == ce = Nil

ScIdle == sc = Nil

VerIdle == ver = Nil

AuIdle == au = Nil

StIdle == st = Nil

InsIdle == ins = Nil

PlanInit ==
    /\ images = PlanImages
    /\ plan = NewPlan
    /\ exec = [k \in Kinds |-> <<>>]
    /\ active = {}
    /\ phase = "assembling"
    /\ pos = [stage |-> 0, idx |-> 0]
    /\ result = NotReturned
    /\ fatalMsg = ""
    /\ scannerCalls = {}
    /\ vcTrace = {}
    /\ ctx = "live"

Init ==
    /\ PlanInit
    /\ EngineIdle
    /\ PmlIdle
    /\ CeIdle /\ ScIdle /\ VerIdle /\ AuIdle
    /\ StIdle /\ InsIdle

(***************************************************************************)
(* Builders.  A Build() that fails validation ends in log.Fatal, which     *)
(* exits the process: nothing after it runs.                               *)
(***************************************************************************)
Fatal(msg) ==
    /\ phase' = "fatal"
    /\ fatalMsg' = msg
    /\ UNCHANGED <<images, plan, exec, active, pos, result, scannerCalls, vcTrace, ctx>>
    /\ UNCHANGED <<engineVars, callVars>>

\* builder.plan.<kind> = append(builder.plan.<kind>, resource), first in line.
RegisterFirst(kind, resource) ==
    /\ plan' = [plan EXCEPT ![kind] = <<resource>> \o @]
    /\ exec' = [exec EXCEPT ![kind] = <<Pending>> \o @]
    /\ UNCHANGED <<images, active, phase, pos, result, fatalMsg, scannerCalls, vcTrace, ctx>>
    /\ UNCHANGED <<engineVars, callVars>>

\* builder.plan.<kind> = append(builder.plan.<kind>, resource)
Register(kind, resource) ==
    /\ plan' = [plan EXCEPT ![kind] = Append(@, resource)]
    /\ exec' = [exec EXCEPT ![kind] = Append(@, Pending)]
    /\ UNCHANGED <<images, active, phase, pos, result, fatalMsg, scannerCalls, vcTrace, ctx>>
    /\ UNCHANGED <<engineVars, callVars>>

Assembling ==
    /\ phase = "assembling"
    /\ Registered < MaxResources

\* The arguments the plan file hands to the builders.
VersionCheckImageArgs == {Nil, "pinned", "tagged", "bare"}
SyncSourceArgs        == {Nil, "pinned", "digestOnly", "tagged"}
\* The scan handed to SyncBuilder.Source: none (a nil *Scan).  A scan is
\* referred to by its index in plan.scans, NoScan is the nil pointer.
SyncScanArgs          == {NoScan}
SyncDestArgs          == {Nil, "tagged", "bare"}
RegistryArgs          == {Nil, "docker.io"}
ScanImageArgs         == {Nil, "pinned", "tagged", "bare"}
AuditImageArgs        == {Nil, "tagged", "digestOnly"}
DockerfileArgs        == {"", "./docker/example/Dockerfile"}

SyncPlatformArgs      == {<<>>, <<PlatformARM64>>}
SeverityCheckArgs     == {<<>>}
FormatArgs            == {""}
RuleSetArgs           == {""}
BuildNodeArgs         == {<<>>, <<"amd64-builder">>}
ContextArgs           == {"", "./docker/example"}
TagArgs               == {"", "ghcr.io/org/example:1"}

errScanMustHaveDigest ==
    "scan image MUST have digest specified (scanning by tag alone is not allowed)"

errDigestMismatch ==
    "DIGEST MISMATCH (possible tag mutation or supply chain attack)"

DefaultSeverityChecks ==
    <<[threshold |-> "HIGH", action |-> "error"],
      [threshold |-> "CRITICAL", action |-> "error"]>>

msgSyncSourceDigest ==
    "sync source image MUST have digest specified (syncing by tag alone is not allowed)"

\* BuildNodeBuilder.Build: a build node is registered, never executed.
BuildNodeBuilderBuild(endpoint, platform) ==
    /\ phase = "assembling"
    /\ IF endpoint = ""
         THEN Fatal("buildnode endpoint is required")
       ELSE IF platform = ""
         THEN Fatal("buildnode platform is required")
       ELSE /\ plan' = [plan EXCEPT !.buildNodes =
                            Append(@, [name |-> "builder", endpoint |-> endpoint,
                                       platform |-> platform])]
            /\ UNCHANGED <<images, exec, active, phase, pos, result, fatalMsg,
                           scannerCalls, vcTrace, ctx>>
            /\ UNCHANGED <<engineVars, callVars>>

VersionCheckBuilderBuild(image) ==
    /\ Assembling
    /\ IF image = Nil
         THEN Fatal("version check image is required")
       ELSE IF images[image].version = ""
         THEN Fatal("version check image must have version specified")
       ELSE Register("versionChecks", [image |-> image])

\* SyncBuilder.Build without the digest validation.
SyncBuilderBuildUnchecked(source, scan, dest, destRegistry, platforms) ==
    /\ Assembling
    /\ IF source = Nil
         THEN Fatal("sync source image is required")
       ELSE IF destRegistry = Nil
         THEN Fatal("sync destination registry is required")
       ELSE IF dest = Nil
         THEN Fatal("sync destination image is required")
       ELSE Register("syncs",
                [sourceImage |-> source, sourceScan |-> scan,
                 destImage |-> dest, destRegistry |-> destRegistry,
                 platforms |-> IF Len(platforms) = 0
                                 THEN <<PlatformAMD64, PlatformARM64>>
                                 ELSE platforms,
                 destDigest |-> ""])

SyncBuilderBuild(source, scan, dest, destRegistry, platforms) ==
    /\ Assembling
    /\ IF source = Nil
         THEN Fatal("sync source image is required")
       ELSE IF images[source].digest = ""
         THEN Fatal(msgSyncSourceDigest)
       ELSE IF destRegistry = Nil
         THEN Fatal("sync destination registry is required")
       ELSE IF dest = Nil
         THEN Fatal("sync destination image is required")
       ELSE Register("syncs",
                [sourceImage |-> source, sourceScan |-> scan,
                 destImage |-> dest, destRegistry |-> destRegistry,
                 platforms |-> IF Len(platforms) = 0
                                 THEN <<PlatformAMD64, PlatformARM64>>
                                 ELSE platforms,
                 destDigest |-> ""])

BuildBuilderBuild(context, dockerfile, nodes, registry, tag) ==
    /\ Assembling
    /\ IF context = ""
         THEN Fatal("build context is required")
       ELSE IF Len(nodes) = 0
         THEN Fatal("at least one build node is required")
       ELSE IF registry = Nil
         THEN Fatal("build registry is required")
       ELSE IF tag = ""
         THEN Fatal("build tag is required")
       ELSE Register("builds",
                [context |-> context,
                 dockerfile |-> IF dockerfile = "" THEN "Dockerfile" ELSE dockerfile,
                 nodes |-> nodes, registry |-> registry, tag |-> tag])

\* ScanBuilder.Build that sets the format to table whatever Format() was given.
ScanBuilderBuildFormatTable(image, severityChecks, format) ==
    /\ Assembling
    /\ IF image = Nil
         THEN Fatal("scan image is required")
       ELSE Register("scans",
                [image |-> image,
                 severityChecks |-> IF Len(severityChecks) = 0
                                      THEN DefaultSeverityChecks
                                      ELSE severityChecks,
                 format |-> "table"])

ScanBuilderBuild(image, severityChecks, format) ==
    /\ Assembling
    /\ IF image = Nil
         THEN Fatal("scan image is required")
       ELSE Register("scans",
                [image |-> image,
                 severityChecks |-> IF Len(severityChecks) = 0
                                      THEN DefaultSeverityChecks
                                      ELSE severityChecks,
                 format |-> IF format = "" THEN "table" ELSE format])

AuditBuilderBuild(dockerfile, image, ruleSet) ==
    /\ Assembling
    /\ IF dockerfile = "" /\ image = Nil
         THEN Fatal("audit requires either dockerfile or image")
       ELSE Register("audits",
                [dockerfile |-> dockerfile, image |-> image,
                 ruleSet |-> IF ruleSet = "" THEN "strict" ELSE ruleSet])


(***************************************************************************)
(* Plan.Execute (sdk/plan.go): the five execute* loops, one after the      *)
(* other, each returning at the first error.                               *)
(***************************************************************************)
AllDone == [stage |-> Len(StageOrder) + 1, idx |-> 0]

\* Where the loops stand before index i of stage k: at that resource, at the
\* first resource of the next stage that has one, or past the last stage.
RECURSIVE NextPosition(_, _, _)
NextPosition(p, k, i) ==
    IF k > Len(StageOrder) THEN AllDone
    ELSE IF i <= Len(p[StageOrder[k]]) THEN [stage |-> k, idx |-> i]
    ELSE NextPosition(p, k + 1, 1)

Execute ==
    /\ phase = "assembling"
    /\ LET np == NextPosition(plan, 1, 1) IN
         IF np = AllDone
           THEN /\ phase' = "done"
                /\ result' = ReturnedNil
                /\ pos' = np
           ELSE /\ phase' = "executing"
                /\ result' = result
                /\ pos' = np
    /\ UNCHANGED <<images, plan, exec, active, fatalMsg, scannerCalls, vcTrace, ctx>>
    /\ UNCHANGED <<engineVars, callVars>>

CurrentKind == StageOrder[pos.stage]

\* The loop calls the execute of the resource it stands at.
Enter ==
    /\ phase = "executing"
    /\ active = {}
    /\ exec[CurrentKind][pos.idx] = Pending
    /\ exec' = [exec EXCEPT ![CurrentKind][pos.idx] = Running]
    /\ active' = {<<CurrentKind, pos.idx>>}
    /\ UNCHANGED <<images, plan, phase, pos, result, fatalMsg, scannerCalls, vcTrace, ctx>>
    /\ UNCHANGED <<engineVars, callVars>>

Executing(kind) ==
    /\ phase = "executing"
    /\ CurrentKind = kind
    /\ active = {<<kind, pos.idx>>}

\* The loop goes on after an error instead of returning it.
LeaveIgnoringErrors(outcome) ==
    /\ exec' = [exec EXCEPT ![CurrentKind][pos.idx] = outcome]
    /\ active' = {}
    /\ UNCHANGED <<ctx, engineVars, callVars>>
    /\ LET np == NextPosition(plan, pos.stage, pos.idx + 1) IN
         /\ pos' = np
         /\ phase' = IF np = AllDone THEN "done" ELSE "executing"
         /\ result' = IF np = AllDone THEN ReturnedNil ELSE result

\* execute returned `outcome` (Ok or Failed(..)): on an error the loop and
\* Execute return it; otherwise the loop goes on, and Execute returns nil
\* after the last resource of the last stage.
Leave(outcome) ==
    /\ exec' = [exec EXCEPT ![CurrentKind][pos.idx] = outcome]
    /\ active' = {}
    /\ UNCHANGED <<ctx, engineVars, callVars>>
    /\ IF outcome.st = "err"
         THEN /\ phase' = "done"
              /\ result' = outcome
              /\ pos' = pos
         ELSE LET np == NextPosition(plan, pos.stage, pos.idx + 1) IN
                /\ pos' = np
                /\ phase' = IF np = AllDone THEN "done" ELSE "executing"
                /\ result' = IF np = AllDone THEN ReturnedNil ELSE result

\* log.Fatal inside an execute: the process exits there.
FatalInExecute(msg) ==
    /\ phase' = "fatal"
    /\ fatalMsg' = msg
    /\ UNCHANGED <<images, plan, exec, active, pos, result, scannerCalls, vcTrace, ctx>>
    /\ UNCHANGED <<engineVars, callVars>>


(***************************************************************************)
(* The execute methods.  What the registries, the build node, trivy and    *)
(* the linters answer is the environment's choice.                         *)
(***************************************************************************)
\* checker.GetTagDigest: Nil is a failure, else the digest the tag resolves to.
TagDigestAnswers == {Nil, "sha256:aa", "sha256:ee"}

\* The events of a VersionCheck.execute that vcTrace records.
GetTagDigestEvent(tagDigest) == "GetTagDigest -> " \o tagDigest

\* checker.CheckVersion, started with whether it succeeds.
CheckVersionEvents(checkVersionOk) ==
    {"CheckVersion"} \cup (IF checkVersionOk THEN {} ELSE {"CheckVersion failed"})

\* What follows the digest verification: the update check.
VersionCheckUpdate(events, checkVersionOk) ==
    [outcome |-> IF checkVersionOk THEN Ok ELSE Failed("failed to check version"),
     events  |-> events \cup CheckVersionEvents(checkVersionOk)]

\* VersionCheck.execute that logs a digest mismatch as a warning and goes on.
VersionCheckExecuteWarnOnMismatch(img, tagDigest, checkVersionOk) ==
    LET got == {GetTagDigestEvent(tagDigest)} IN
      IF img.digest # "" /\ tagDigest = Nil
        THEN [outcome |-> Failed("failed to get current version digest"), events |-> got]
        ELSE VersionCheckUpdate(got \cup {"warn"}, checkVersionOk)

\* VersionCheck.execute that fails when the digest of an unpinned image cannot
\* be fetched.
VersionCheckExecuteStrict(img, tagDigest, checkVersionOk) ==
    LET got == {GetTagDigestEvent(tagDigest)} IN
      IF tagDigest = Nil
        THEN [outcome |-> Failed("failed to get current version digest"), events |-> got]
      ELSE IF img.digest # "" /\ tagDigest # img.digest
        THEN [outcome |-> Failed(errDigestMismatch), events |-> got \cup {"error"}]
      ELSE VersionCheckUpdate(got, checkVersionOk)

\* VersionCheck.execute, given GetTagDigest's answer and whether CheckVersion
\* succeeds: the error it returns, and what it did ("error", "warn": it
\* logged at that level about the digest).
VersionCheckExecute(img, tagDigest, checkVersionOk) ==
    LET got == {GetTagDigestEvent(tagDigest)} IN
      IF img.digest # "" /\ tagDigest = Nil
        THEN [outcome |-> Failed("failed to get current version digest"), events |-> got]
      ELSE IF img.digest # "" /\ tagDigest # img.digest
        THEN [outcome |-> Failed(errDigestMismatch), events |-> got \cup {"error"}]
      ELSE IF img.digest # ""
        THEN VersionCheckUpdate(got, checkVersionOk)
      ELSE VersionCheckUpdate(got \cup {"warn"}, checkVersionOk)

FinishVersionCheck ==
    /\ Executing("versionChecks")
    /\ LET img == images[plan.versionChecks[pos.idx].image] IN
         IF tagRef(img) = Nil
           THEN FatalInExecute("cannot create tag reference without version")
           ELSE /\ \E tagDigest \in TagDigestAnswers, checkVersionOk \in BOOLEAN :
                     LET r == VersionCheckExecute(img, tagDigest, checkVersionOk) IN
                       /\ Leave(r.outcome)
                       /\ vcTrace' = vcTrace \cup {<<pos.idx, e>> : e \in r.events}
                /\ UNCHANGED <<images, plan, fatalMsg, scannerCalls>>

\* Sync.execute's destination reference: name:version, or the bare name.
SyncDestRef(img) ==
    IF img.version # "" THEN img.name \o ":" \o img.version ELSE img.name

\* Syncer.SyncImage as the plan sees it: an error, or the digest computed
\* locally from what was pushed, which the source content determines
\* (SyncSpec below models the engine itself).
SyncImage(srcImage, dstImage) ==
    { [err |-> "failed to get source image", digest |-> ""],
      [err |-> "", digest |-> "sha256:synced(" \o srcImage \o ")"] }

\* Sync.execute that records the digest also when SyncImage failed.
SyncExecuteStoresOnError(idx, out) ==
    /\ plan' = [plan EXCEPT !.syncs[idx].destDigest = "sha256:unknown"]
    /\ images' = [images EXCEPT ![plan.syncs[idx].destImage].digest = "sha256:unknown"]
    /\ Leave(IF out.err # "" THEN Failed("failed to sync image: " \o out.err) ELSE Ok)

\* Sync.execute that keeps the digest to itself: destImage is not populated.
SyncExecuteNoHandOff(idx, out) ==
    IF out.err # ""
      THEN /\ Leave(Failed("failed to sync image: " \o out.err))
           /\ UNCHANGED <<images, plan>>
      ELSE /\ plan' = [plan EXCEPT !.syncs[idx].destDigest = out.digest]
           /\ images' = images
           /\ Leave(Ok)

\* Sync.execute after SyncImage returned `out`.
SyncExecute(idx, out) ==
    IF out.err # ""
      THEN /\ Leave(Failed("failed to sync image: " \o out.err))
           /\ UNCHANGED <<images, plan>>
      ELSE /\ plan' = [plan EXCEPT !.syncs[idx].destDigest = out.digest]
           /\ images' = [images EXCEPT ![plan.syncs[idx].destImage].digest = out.digest]
           /\ Leave(Ok)

FinishSync ==
    /\ Executing("syncs")
    /\ LET sync      == plan.syncs[pos.idx]
           sourceRef == digestRef(images[sync.sourceImage])
           destRef   == SyncDestRef(images[sync.destImage])
       IN  IF sourceRef = Nil
             THEN FatalInExecute("cannot create digest reference without digest")
             ELSE /\ \E out \in SyncImage(sourceRef, destRef) :
                       SyncExecute(pos.idx, out)
                  /\ UNCHANGED <<fatalMsg, scannerCalls, vcTrace>>

\* Build.execute: the remote build succeeds or fails.
BuildOutcomes == {Ok, Failed("failed to build image")}

FinishBuild ==
    /\ Executing("builds")
    /\ \E out \in BuildOutcomes : Leave(out)
    /\ UNCHANGED <<images, plan, fatalMsg, scannerCalls, vcTrace>>

\* What follows the digest check of Scan.execute: trivy fails, an error check
\* matches, or the scan passes.
errVulnerabilitiesFound == "vulnerabilities found at or above threshold"

ScanOutcomes ==
    {Ok, Failed("failed to scan image"), Failed(errVulnerabilitiesFound)}

\* Scan.execute without the digest check: trivy is always invoked.
ScanExecuteNoDigestCheck(img, scanned) ==
    [outcome |-> scanned, invoked |-> TRUE]

\* Scan.execute: the digest check, then trivy.
ScanExecute(img, scanned) ==
    IF img.digest = ""
      THEN [outcome |-> Failed(errScanMustHaveDigest), invoked |-> FALSE]
      ELSE [outcome |-> scanned, invoked |-> TRUE]

FinishScan ==
    /\ Executing("scans")
    /\ \E scanned \in ScanOutcomes :
         LET r == ScanExecute(images[plan.scans[pos.idx].image], scanned) IN
           /\ Leave(r.outcome)
           /\ scannerCalls' = IF r.invoked THEN scannerCalls \cup {pos.idx}
                                           ELSE scannerCalls
    /\ UNCHANGED <<images, plan, fatalMsg, vcTrace>>

errAuditFoundIssues == "audit found issues"

\* Audit.execute after tagRef: the linters fail, find issues, or pass.
AuditOutcomes(audit) ==
    {Ok, Failed(errAuditFoundIssues)}
      \cup (IF audit.dockerfile # "" THEN {Failed("failed to audit Dockerfile")} ELSE {})
      \cup (IF audit.image # Nil THEN {Failed("failed to audit image")} ELSE {})

FinishAudit ==
    /\ Executing("audits")
    /\ LET audit == plan.audits[pos.idx] IN
         IF audit.image # Nil /\ tagRef(images[audit.image]) = Nil
           THEN FatalInExecute("cannot create tag reference without version")
           ELSE /\ \E out \in AuditOutcomes(audit) : Leave(out)
                /\ UNCHANGED <<images, plan, fatalMsg, scannerCalls, vcTrace>>

\* Plan.DryRun that empties the collections it pretends to run.
DryRunClears ==
    /\ phase \in {"assembling", "done"}
    /\ plan' = NewPlan
    /\ exec' = [k \in Kinds |-> <<>>]
    /\ UNCHANGED <<images, active, phase, pos, result, fatalMsg, scannerCalls, vcTrace, ctx>>
    /\ UNCHANGED <<engineVars, callVars>>

\* Plan.DryRun, which the plan file may call before or after Execute: it logs
\* and returns nil.
DryRun ==
    /\ phase \in {"assembling", "done"}
    /\ UNCHANGED vars

Next ==
    \/ \E image \in VersionCheckImageArgs : VersionCheckBuilderBuild(image)
    \/ \E source \in SyncSourceArgs, scan \in SyncScanArgs, dest \in SyncDestArgs,
          destRegistry \in RegistryArgs, platforms \in SyncPlatformArgs :
            SyncBuilderBuild(source, scan, dest, destRegistry, platforms)
    \/ \E context \in ContextArgs, dockerfile \in DockerfileArgs,
          nodes \in BuildNodeArgs, registry \in RegistryArgs, tag \in TagArgs :
            BuildBuilderBuild(context, dockerfile, nodes, registry, tag)
    \/ \E image \in ScanImageArgs, checks \in SeverityCheckArgs, format \in FormatArgs :
            ScanBuilderBuild(image, checks, format)
    \/ \E dockerfile \in DockerfileArgs, image \in AuditImageArgs, ruleSet \in RuleSetArgs :
            AuditBuilderBuild(dockerfile, image, ruleSet)
    \/ Execute
    \/ DryRun
    \/ Enter
    \/ FinishVersionCheck
    \/ FinishSync
    \/ FinishBuild
    \/ FinishScan
    \/ FinishAudit

Spec == Init /\ [][Next]_vars


(***************************************************************************)
(* Plans executed under a context that can be cancelled, with syncs that   *)
(* were handed a scan: Plan.Execute passes ctx on to every execute* loop   *)
(* and every execute, and none of them reads it (Build.execute hands it to *)
(* BuildMultiPlatform, which ignores it as well).                          *)
(***************************************************************************)
\* The plan file's context is cancelled: its deadline passes, or its cancel
\* function is called, before or during Execute.
Cancel ==
    /\ ctx = "live"
    /\ phase \in {"assembling", "executing"}
    /\ ctx' = "cancelled"
    /\ UNCHANGED <<images, plan, exec, active, phase, pos, result, fatalMsg,
                   scannerCalls, vcTrace>>
    /\ UNCHANGED <<engineVars, callVars>>

\* The scans ScanBuilder.Build returned so far, and the nil scan.
BuiltScans == {NoScan} \cup DOMAIN plan.scans

RunScanImageArgs == {"pinned", "tagged"}

RunNext ==
    \/ VersionCheckBuilderBuild("pinned")
    \/ \E scan \in BuiltScans :
            SyncBuilderBuild("pinned", scan, "tagged", "docker.io", <<>>)
    \/ BuildBuilderBuild("./docker/example", "", <<"amd64-builder">>, "docker.io",
                         "ghcr.io/org/example:1")
    \/ \E image \in RunScanImageArgs : ScanBuilderBuild(image, <<>>, "")
    \/ AuditBuilderBuild("./docker/example/Dockerfile", Nil, "")
    \/ Cancel
    \/ Execute
    \/ Enter
    \/ FinishVersionCheck
    \/ FinishSync
    \/ FinishBuild
    \/ FinishScan
    \/ FinishAudit

RunSpec == Init /\ [][RunNext]_vars

(***************************************************************************)
(* The builders, over the arguments a plan file can hand them: set and     *)
(* unset fields, the declared constants and other values of their types    *)
(* (Platform, Format and RuleSet are string types: any string converts).   *)
(***************************************************************************)
\* The most Build() calls of the plan file.
MaxBuilt == 2

Built == Registered + Len(plan.buildNodes)

PlatformArgs == {"", PlatformAMD64, PlatformARM64, "windows/amd64"}

EndpointArgs == {"", "ssh://builder"}

PlatformListArgs ==
    {<<>>, <<PlatformARM64>>, <<PlatformARM64, PlatformAMD64>>, <<"windows/amd64">>}

CheckListArgs == {<<>>, <<[threshold |-> "MEDIUM", action |-> "warn"]>>}

FormatValueArgs == {"", "table", "json"}

RuleSetValueArgs == {"", "strict", "recommended", "minimal"}

BuilderNext ==
    \/ \E endpoint \in EndpointArgs, platform \in PlatformArgs :
            Built < MaxBuilt /\ BuildNodeBuilderBuild(endpoint, platform)
    \/ \E image \in VersionCheckImageArgs :
            Built < MaxBuilt /\ VersionCheckBuilderBuild(image)
    \/ \E source \in SyncSourceArgs, scan \in BuiltScans, dest \in SyncDestArgs,
          destRegistry \in RegistryArgs, platforms \in PlatformListArgs :
            Built < MaxBuilt
              /\ SyncBuilderBuild(source, scan, dest, destRegistry, platforms)
    \/ \E context \in ContextArgs, dockerfile \in DockerfileArgs,
          nodes \in BuildNodeArgs, registry \in RegistryArgs, tag \in TagArgs :
            Built < MaxBuilt
              /\ BuildBuilderBuild(context, dockerfile, nodes, registry, tag)
    \/ \E image \in ScanImageArgs, checks \in CheckListArgs,
          format \in FormatValueArgs :
            Built < MaxBuilt /\ ScanBuilderBuild(image, checks, format)
    \/ \E dockerfile \in DockerfileArgs, image \in AuditImageArgs,
          ruleSet \in RuleSetValueArgs :
            Built < MaxBuilt /\ AuditBuilderBuild(dockerfile, image, ruleSet)

BuilderSpec == Init /\ [][BuilderNext]_vars

\* C22: Platform is restricted to linux/amd64 and linux/arm64: the platform
\* of every registered build node and every entry of every registered sync's
\* platform list is one of the two.
C22_PlatformEnumerated ==
    /\ \A i \in DOMAIN plan.buildNodes :
          plan.buildNodes[i].platform \in {PlatformAMD64, PlatformARM64}
    /\ \A i \in DOMAIN plan.syncs :
          \A j \in DOMAIN plan.syncs[i].platforms :
            plan.syncs[i].platforms[j] \in {PlatformAMD64, PlatformARM64}

\* A build node and a sync registered with a platform outside the two.
C22_Witness ==
    /\ \E i \in DOMAIN plan.buildNodes : plan.buildNodes[i].platform = "windows/amd64"
    /\ \E i \in DOMAIN plan.syncs : plan.syncs[i].platforms = <<"windows/amd64">>
    /\ phase = "assembling"

\* The resource the last Build() appended to a collection.
Newest(kind) == plan'[kind][Len(plan'[kind])]

\* C28: Build() applies a default only to a field left unset and keeps every
\* value that was set: an unset Dockerfile of a Build becomes "Dockerfile", an
\* empty platform list of a Sync [linux/amd64, linux/arm64], an empty check
\* list of a Scan [HIGH: error, CRITICAL: error], an unset format of a Scan
\* table, an unset rule set of an Audit strict.
C28_DefaultsOnlyWhenUnset ==
    [][phase' = "assembling" =>
        /\ \A context \in ContextArgs, dockerfile \in DockerfileArgs,
              nodes \in BuildNodeArgs, registry \in RegistryArgs, tag \in TagArgs :
             BuildBuilderBuild(context, dockerfile, nodes, registry, tag) =>
               /\ Newest("builds").dockerfile =
                     (IF dockerfile = "" THEN "Dockerfile" ELSE dockerfile)
               /\ Newest("builds").context = context
               /\ Newest("builds").tag = tag
        /\ \A source \in SyncSourceArgs, scan \in BuiltScans, dest \in SyncDestArgs,
              destRegistry \in RegistryArgs, platforms \in PlatformListArgs :
             SyncBuilderBuild(source, scan, dest, destRegistry, platforms) =>
               /\ Newest("syncs").platforms =
                     (IF platforms = <<>> THEN <<"linux/amd64", "linux/arm64">>
                                         ELSE platforms)
               /\ Newest("syncs").sourceScan = scan
        /\ \A image \in ScanImageArgs, checks \in CheckListArgs,
              format \in FormatValueArgs :
             ScanBuilderBuild(image, checks, format) =>
               /\ Newest("scans").severityChecks =
                     (IF checks = <<>>
                        THEN <<[threshold |-> "HIGH", action |-> "error"],
                               [threshold |-> "CRITICAL", action |-> "error"]>>
                        ELSE checks)
               /\ Newest("scans").format = (IF format = "" THEN "table" ELSE format)
        /\ \A dockerfile \in DockerfileArgs, image \in AuditImageArgs,
              ruleSet \in RuleSetValueArgs :
             AuditBuilderBuild(dockerfile, image, ruleSet) =>
               /\ Newest("audits").ruleSet =
                     (IF ruleSet = "" THEN "strict" ELSE ruleSet)
               /\ Newest("audits").dockerfile = dockerfile]_vars

\* One scan was built with its checks and format set, another with neither,
\* and each kept or received its values accordingly.
C28_Witness ==
    /\ \E i \in DOMAIN plan.scans :
          /\ plan.scans[i].format = "json"
          /\ plan.scans[i].severityChecks = <<[threshold |-> "MEDIUM", action |-> "warn"]>>
    /\ \E i \in DOMAIN plan.scans :
          /\ plan.scans[i].format = "table"
          /\ plan.scans[i].severityChecks = DefaultSeverityChecks

\* C21: Execute honours its context at least between stages: when the context
\* is cancelled before a stage begins, the first resource of that stage (and
\* with it every later resource) is not executed.
C21_CancelStopsStages ==
    [][~(/\ ctx = "cancelled"
         /\ phase = "executing" /\ pos.idx = 1
         /\ active = {} /\ active' # {})]_vars

\* Execute returned nil although its context was cancelled before its first
\* stage began: every resource ran.
C21_Witness ==
    /\ ctx = "cancelled"
    /\ result = ReturnedNil
    /\ \E k \in Kinds : Len(exec[k]) > 0
    /\ \A k \in Kinds : \A i \in DOMAIN exec[k] : exec[k][i] = Ok

\* C24: a sync that was handed a scan copies nothing unless that scan has
\* executed and passed: whenever such a sync has copied (it completed and
\* recorded the destination digest), its scan has completed successfully.
C24_ScanBeforeSync ==
    \A i \in DOMAIN plan.syncs :
        (plan.syncs[i].sourceScan # NoScan /\ exec.syncs[i] = Ok)
            => exec.scans[plan.syncs[i].sourceScan] = Ok

\* A sync that was handed a scan has copied while its scan has not started.
C24_Witness ==
    \E i \in DOMAIN plan.syncs :
        /\ plan.syncs[i].sourceScan # NoScan
        /\ exec.syncs[i] = Ok /\ plan.syncs[i].destDigest # ""
        /\ exec.scans[plan.syncs[i].sourceScan] = Pending


(***************************************************************************)
(* Properties of the plan.                                                 *)
(***************************************************************************)
\* The order of the stages as the specification states it.
StageRank ==
    [versionChecks |-> 1, syncs |-> 2, builds |-> 3, scans |-> 4, audits |-> 5]

Resources == {<<k, i>> : k \in Kinds, i \in 1..MaxResources + 1}

Exists(r) == r[2] \in DOMAIN exec[r[1]]

StatusOf(r) == exec[r[1]][r[2]]

\* r1 comes before r2 in the stated order of execution.
Before(r1, r2) ==
    \/ StageRank[r1[1]] < StageRank[r2[1]]
    \/ r1[1] = r2[1] /\ r1[2] < r2[2]

\* C1: Execute runs the stages in the order version checks, syncs, builds,
\* scans, audits: whenever a resource has started, every resource of every
\* earlier stage has completed successfully, and at most one resource is
\* executing at any time.
C1_FixedStageOrder ==
    /\ Cardinality(active) <= 1
    /\ \A r \in Resources : Exists(r) => (StatusOf(r) = Running <=> r \in active)
    /\ \A r1 \in Resources, r2 \in Resources :
         (/\ Exists(r1) /\ Exists(r2)
          /\ StageRank[r1[1]] < StageRank[r2[1]]
          /\ StatusOf(r2) # Pending)
            => StatusOf(r1) = Ok

\* An audit executes after a version check, and a sync or a scan, completed.
C1_Witness ==
    /\ \E i \in DOMAIN exec.audits : exec.audits[i] = Running
    /\ Len(exec.versionChecks) > 0
    /\ Len(exec.syncs) + Len(exec.scans) > 0

\* C2: within a stage the resources execute one at a time in the order their
\* Build() calls registered them: a resource has not started before all
\* resources registered earlier in its collection completed, and every
\* registration puts the new resource behind those already registered.
C2_RegistrationOrder ==
    /\ [](\A k \in Kinds : \A i \in DOMAIN exec[k], j \in DOMAIN exec[k] :
            (i < j /\ exec[k][j] # Pending) => exec[k][i] = Ok)
    /\ [][\A k \in Kinds :
            Len(plan'[k]) # Len(plan[k]) =>
              /\ Len(plan'[k]) = Len(plan[k]) + 1
              /\ SubSeq(plan'[k], 1, Len(plan[k])) = plan[k]
              /\ exec'[k] = Append(exec[k], Pending)]_vars

\* The second of two different resources of a kind executes after the first.
C2_Witness ==
    \E k \in Kinds : \E i \in DOMAIN exec[k], j \in DOMAIN exec[k] :
        /\ i < j
        /\ plan[k][i] # plan[k][j]
        /\ exec[k][i] = Ok
        /\ exec[k][j] = Running

\* C3: Execute stops at the first resource whose execute returns an error and
\* returns that error; no resource after it is executed, then or later;
\* what completed stays as it is; and Execute returns nil only if every
\* registered resource executed successfully.
C3_StopAtFirstError ==
    /\ [](\A r \in Resources :
            (Exists(r) /\ StatusOf(r).st = "err") =>
              /\ phase = "done"
              /\ result = StatusOf(r)
              /\ \A r2 \in Resources :
                   Exists(r2) /\ r2 # r =>
                     /\ Before(r2, r) => StatusOf(r2) = Ok
                     /\ Before(r, r2) => StatusOf(r2) = Pending)
    /\ [](result.st = "err" =>
            \E r \in Resources : Exists(r) /\ StatusOf(r) = result)
    /\ [](result.st = "nil" =>
            \A r \in Resources : Exists(r) => StatusOf(r) = Ok)
    /\ [][result.st = "err" => UNCHANGED <<exec, plan, images, result>>]_vars
    /\ [][\A r \in Resources :
            (Exists(r) /\ StatusOf(r) = Ok) =>
              /\ exec'[r[1]][r[2]] = Ok
              /\ plan'[r[1]][r[2]] = plan[r[1]][r[2]]]_vars

\* Execute returned the error of a resource that has a completed resource
\* before it and a resource that never started after it.
C3_Witness ==
    /\ result.st = "err"
    /\ \E r \in Resources, r1 \in Resources, r2 \in Resources :
         /\ Exists(r) /\ Exists(r1) /\ Exists(r2)
         /\ StatusOf(r) = result
         /\ Before(r1, r) /\ StatusOf(r1) = Ok
         /\ Before(r, r2) /\ StatusOf(r2) = Pending


\* The scans built on the destination Image of a sync: <<scan, sync>> indices.
HandOffs ==
    {<<j, i>> \in (DOMAIN plan.scans) \X (DOMAIN plan.syncs) :
        plan.scans[j].image = plan.syncs[i].destImage}

\* The sync registered last among those whose destination is image h.
LastSyncTo(h) ==
    CHOOSE i \in DOMAIN plan.syncs :
        /\ plan.syncs[i].destImage = h
        /\ \A i2 \in DOMAIN plan.syncs :
             plan.syncs[i2].destImage = h => i2 <= i

\* C4 as stated: when a scan built on the destination handle of a sync has
\* started, that sync completed successfully, the handle's digest is the
\* digest SyncImage returned for that sync, and the scan has not failed with
\* the must-have-digest error.
C4_HandOffAsStated ==
    \A p \in HandOffs :
        exec.scans[p[1]] # Pending =>
          /\ exec.syncs[p[2]] = Ok
          /\ images[plan.scans[p[1]].image].digest = plan.syncs[p[2]].destDigest
          /\ exec.scans[p[1]].err # errScanMustHaveDigest

\* C4 (amended): when a scan built on the destination handle of a sync has
\* started, every sync with that destination completed successfully, the
\* handle's digest is the non-empty digest SyncImage returned for the sync
\* registered last among them, and the scan has not failed with the
\* must-have-digest error.
C4_HandOff ==
    \A p \in HandOffs :
        exec.scans[p[1]] # Pending =>
          LET h == plan.scans[p[1]].image IN
            /\ exec.syncs[p[2]] = Ok
            /\ images[h].digest = plan.syncs[LastSyncTo(h)].destDigest
            /\ images[h].digest # ""
            /\ exec.scans[p[1]].err # errScanMustHaveDigest

\* A scan has started on a handle that had no digest when it was built and
\* that a sync populated.
C4_Witness ==
    \E p \in HandOffs :
        /\ exec.scans[p[1]] = Running
        /\ PlanImages[plan.scans[p[1]].image].digest = ""
        /\ images[plan.scans[p[1]].image].digest = plan.syncs[p[2]].destDigest

\* C5: a SyncBuilder.Build() whose source image has an empty digest ends in
\* the fatal construction error, whatever the destination, the registry and
\* the platforms are, and leaves the plan as it was; no registered sync has a
\* source image without digest.
C5_SyncRequiresSourceDigest ==
    /\ [](\A i \in DOMAIN plan.syncs :
            images[plan.syncs[i].sourceImage].digest # "")
    /\ [][\A source \in SyncSourceArgs \ {Nil}, scan \in SyncScanArgs, dest \in SyncDestArgs,
             destRegistry \in RegistryArgs, platforms \in SyncPlatformArgs :
            (/\ images[source].digest = ""
             /\ SyncBuilderBuild(source, scan, dest, destRegistry, platforms))
              => /\ phase' = "fatal"
                 /\ fatalMsg' = msgSyncSourceDigest
                 /\ plan' = plan]_vars

\* The process ended in the missing-digest error of a sync, after another
\* sync had been registered.
C5_Witness ==
    /\ phase = "fatal"
    /\ fatalMsg = msgSyncSourceDigest
    /\ Len(plan.syncs) > 0

\* C6: ScanBuilder.Build() registers a scan of an image whose digest is
\* empty; but when a scan's execute runs while its image's digest is empty,
\* it returns the must-have-digest error and trivy is not invoked.
C6_ScanDigestCheckedAtExecute ==
    /\ [][\A image \in ScanImageArgs \ {Nil}, checks \in SeverityCheckArgs,
             format \in FormatArgs :
            (/\ images[image].digest = ""
             /\ ScanBuilderBuild(image, checks, format))
              => /\ phase' = "assembling"
                 /\ Len(plan'.scans) = Len(plan.scans) + 1
                 /\ plan'.scans[Len(plan'.scans)].image = image]_vars
    /\ [][\A j \in DOMAIN exec.scans :
            (/\ exec.scans[j] = Running
             /\ images[plan.scans[j].image].digest = ""
             /\ exec'.scans[j] # Running)
              => /\ exec'.scans[j] = Failed(errScanMustHaveDigest)
                 /\ result' = Failed(errScanMustHaveDigest)
                 /\ scannerCalls' = scannerCalls]_vars
    /\ [](\A j \in scannerCalls : images[plan.scans[j].image].digest # "")

\* A scan of an image without digest was registered, executed, and failed
\* with the must-have-digest error without trivy being invoked.
C6_Witness ==
    \E j \in DOMAIN exec.scans :
        /\ images[plan.scans[j].image].digest = ""
        /\ exec.scans[j] = Failed(errScanMustHaveDigest)
        /\ j \notin scannerCalls

\* C7: a sync's destDigest is empty until its execute succeeded and changes
\* only in the step in which its execute succeeds; when SyncImage fails,
\* execute returns an error and leaves destDigest and the destination
\* image's digest as they were.
C7_DestDigestOnlyOnSuccess ==
    /\ [](\A i \in DOMAIN plan.syncs :
            plan.syncs[i].destDigest # "" => exec.syncs[i] = Ok)
    /\ [][\A i \in DOMAIN plan.syncs :
            /\ plan'.syncs[i].destDigest # plan.syncs[i].destDigest
                 => exec.syncs[i] = Running /\ exec'.syncs[i] = Ok
            /\ (exec.syncs[i] = Running /\ exec'.syncs[i].st = "err")
                 => /\ result' = exec'.syncs[i]
                    /\ plan'.syncs[i].destDigest = plan.syncs[i].destDigest
                    /\ images' = images]_vars

\* A sync failed whose destination image already carried a digest, and the
\* image still carries it.
C7_Witness ==
    \E i \in DOMAIN plan.syncs :
        /\ exec.syncs[i].st = "err"
        /\ plan.syncs[i].destDigest = ""
        /\ images[plan.syncs[i].destImage].digest # ""


\* C11: when a version check whose image carries a digest has fetched a tag
\* digest that differs from it, its execute returns the digest-mismatch
\* error, which Execute returns; it logged the mismatch as an error, not as a
\* warning, and CheckVersion was not started, then or later.
C11_MismatchStopsVersionCheck ==
    /\ [][\A i \in DOMAIN exec.versionChecks :
            (exec.versionChecks[i] = Running /\ exec'.versionChecks[i] # Running) =>
              LET img == images[plan.versionChecks[i].image] IN
                \A d \in TagDigestAnswers \ {Nil} :
                   (/\ img.digest # ""
                    /\ d # img.digest
                    /\ <<i, GetTagDigestEvent(d)>> \in vcTrace')
                     => /\ exec'.versionChecks[i] = Failed(errDigestMismatch)
                        /\ result' = Failed(errDigestMismatch)
                        /\ <<i, "error">> \in vcTrace'
                        /\ <<i, "warn">> \notin vcTrace'
                        /\ <<i, "CheckVersion">> \notin vcTrace']_vars
    /\ [](\A i \in DOMAIN exec.versionChecks :
            exec.versionChecks[i] = Failed(errDigestMismatch) =>
                <<i, "CheckVersion">> \notin vcTrace)

\* The version check of the pinned image found the tag at another digest
\* and failed, after an earlier version check had run its update check.
C11_Witness ==
    \E i \in DOMAIN exec.versionChecks :
        /\ i > 1
        /\ PlanImages[plan.versionChecks[i].image].digest = "sha256:aa"
        /\ <<i, GetTagDigestEvent("sha256:ee")>> \in vcTrace
        /\ <<1, "CheckVersion">> \in vcTrace
        /\ result = Failed(errDigestMismatch)

\* C19: a version check whose image has no digest warns about it and always
\* runs CheckVersion, whether GetTagDigest answered or failed; its execute
\* fails exactly when CheckVersion fails, with that failure.
C19_UnpinnedVersionCheckOnlyWarns ==
    [][\A i \in DOMAIN exec.versionChecks :
         (/\ exec.versionChecks[i] = Running
          /\ exec'.versionChecks[i] # Running
          /\ images[plan.versionChecks[i].image].digest = "")
           => /\ \E d \in TagDigestAnswers : <<i, GetTagDigestEvent(d)>> \in vcTrace'
              /\ <<i, "warn">> \in vcTrace'
              /\ <<i, "error">> \notin vcTrace'
              /\ <<i, "CheckVersion">> \in vcTrace'
              /\ exec'.versionChecks[i] =
                   IF <<i, "CheckVersion failed">> \in vcTrace'
                     THEN Failed("failed to check version") ELSE Ok]_vars

\* A version check of an image without digest succeeded although the digest
\* of its tag could not be fetched.
C19_Witness ==
    \E i \in DOMAIN exec.versionChecks :
        /\ images[plan.versionChecks[i].image].digest = ""
        /\ <<i, GetTagDigestEvent(Nil)>> \in vcTrace
        /\ <<i, "CheckVersion">> \in vcTrace
        /\ exec.versionChecks[i] = Ok

\* A registered resource as the collection holds it: the object, whatever
\* digest its execute stored in it.
Identity(kind, resource) ==
    IF kind = "syncs" THEN [resource EXCEPT !.destDigest = ""] ELSE resource

\* Collection `kind` grew by one resource, which has the fields `fields` and
\* is its last; the other collections are as they were.
Appended(kind, fields) ==
    /\ Len(plan'[kind]) = Len(plan[kind]) + 1
    /\ \A f \in DOMAIN fields : plan'[kind][Len(plan'[kind])][f] = fields[f]
    /\ \A k \in Kinds \ {kind} : plan'[k] = plan[k]

C29_NoFatalInExecute == phase = "fatal" => active = {}

\* The audit of an image that has a digest and no version, accepted by
\* AuditBuilder.Build, ended the process in tagRef.
C29_Witness ==
    /\ phase = "fatal"
    /\ fatalMsg = "cannot create tag reference without version"
    /\ \E i \in DOMAIN plan.audits :
          /\ active = {<<"audits", i>>}
          /\ plan.audits[i].image = "digestOnly"

(***************************************************************************)
(* Strings.  The references and platform keys that the engine takes apart  *)
(* or orders are sequences of one-character strings; Str gives the string  *)
(* they spell.                                                             *)
(***************************************************************************)
RECURSIVE Str(_)
Str(s) == IF Len(s) = 0 THEN "" ELSE Head(s) \o Str(Tail(s))

\* The characters of the model in the order of their byte values.
ByteOrder ==
    <<"-", ".", "/", "0", "1", "2", "3", "4", "5", "6", "7", "8", "9", ":", "@",
      "_", "a", "b", "c", "d", "e", "f", "g", "h", "i", "j", "k", "l", "m", "n",
      "o", "p", "q", "r", "s", "t", "u", "v", "w", "x", "y", "z">>

Ord(c) == CHOOSE i \in DOMAIN ByteOrder : ByteOrder[i] = c

\* a < b for Go strings: byte-wise lexicographic.
RECURSIVE Less(_, _)
Less(a, b) ==
    IF Len(b) = 0 THEN FALSE
    ELSE IF Len(a) = 0 THEN TRUE
    ELSE IF Ord(Head(a)) < Ord(Head(b)) THEN TRUE
    ELSE IF Ord(Head(a)) > Ord(Head(b)) THEN FALSE
    ELSE Less(Tail(a), Tail(b))

\* strings.Index(s, c): the first position of c in s; 0 (Go: -1) if none.
IndexOf(s, c) ==
    IF \E i \in DOMAIN s : s[i] = c
      THEN CHOOSE i \in DOMAIN s : s[i] = c /\ \A j \in 1..(i - 1) : s[j] # c
      ELSE 0

\* strings.SplitN(s, "/", 2)
SplitN(s) ==
    LET at == IndexOf(s, "/") IN
      IF at = 0 THEN <<s>>
      ELSE <<SubSeq(s, 1, at - 1), SubSeq(s, at + 1, Len(s))>>

\* The platform list in its given order (no sort.Strings).
KeepOrder(platforms) == platforms

\* sort.Strings
RECURSIVE SortStrings(_)
SortStrings(platforms) ==
    IF Len(platforms) <= 1 THEN platforms
    ELSE LET n      == Len(platforms)
             sorted == SortStrings(SubSeq(platforms, 1, n - 1))
             x      == platforms[n]
             k      == Cardinality({i \in DOMAIN sorted : ~Less(x, sorted[i])})
         IN  SubSeq(sorted, 1, k) \o <<x>> \o SubSeq(sorted, k + 1, n - 1)

\* The loop of stripTag from position i down: cut at ':', stop at '/'.
RECURSIVE stripTagScan(_, _)
stripTagScan(imageRef, i) ==
    IF i < 1 THEN imageRef
    ELSE IF imageRef[i] = ":" THEN SubSeq(imageRef, 1, i - 1)
    ELSE IF imageRef[i] = "/" THEN imageRef
    ELSE stripTagScan(imageRef, i - 1)

stripTag(imageRef) ==
    LET atIdx == IndexOf(imageRef, "@") IN
      IF atIdx # 0 THEN SubSeq(imageRef, 1, atIdx - 1)
      ELSE stripTagScan(imageRef, Len(imageRef))

\* sanitizePlatform that keeps the whole platform string.
sanitizePlatformWhole(platform) == platform

\* The loop of sanitizePlatform from position i down.
RECURSIVE sanitizePlatformScan(_, _)
sanitizePlatformScan(platform, i) ==
    IF i < 1 THEN platform
    ELSE IF platform[i] = "/" THEN SubSeq(platform, i + 1, Len(platform))
    ELSE sanitizePlatformScan(platform, i - 1)

sanitizePlatform(platform) == sanitizePlatformScan(platform, Len(platform))

\* The orders in which a Go map with the keys S can be iterated.
Perms(S) ==
    {o \in [1..Cardinality(S) -> S] :
        \A i \in DOMAIN o, j \in DOMAIN o : i # j => o[i] # o[j]}


(***************************************************************************)
(* Registry content.  An image is known by the digest of its manifest; an  *)
(* index is the sequence of its manifest descriptors.  The digest of       *)
(* content is computed from the content, and differs wherever the content  *)
(* differs, the order of an index's manifests included.                    *)
(***************************************************************************)
Image(digest) == [isIndex |-> FALSE, manifests |-> <<>>, digest |-> digest]

Index(manifests) == [isIndex |-> TRUE, manifests |-> manifests, digest |-> ""]

\* v1.Descriptor with its Platform{OS, Architecture}, and one without Platform.
Descriptor(os, arch, digest) ==
    [hasPlatform |-> TRUE, os |-> os, arch |-> arch, digest |-> digest]

NoPlatformDescriptor(digest) ==
    [hasPlatform |-> FALSE, os |-> <<>>, arch |-> <<>>, digest |-> digest]

RECURSIVE IndexBody(_)
IndexBody(manifests) ==
    IF Len(manifests) = 0 THEN ""
    ELSE LET d == Head(manifests) IN
           Str(d.os) \o "/" \o Str(d.arch) \o "=" \o d.digest \o ";"
             \o IndexBody(Tail(manifests))

\* img.Digest() / idx.Digest(): the hash of the manifest, computed locally.
Digest(content) ==
    IF content.isIndex THEN "sha256:index(" \o IndexBody(content.manifests) \o ")"
    ELSE content.digest

Linux   == <<"l", "i", "n", "u", "x">>
Windows == <<"w", "i", "n", "d", "o", "w", "s">>
Amd64   == <<"a", "m", "d", "6", "4">>
Arm64   == <<"a", "r", "m", "6", "4">>
Arm     == <<"a", "r", "m">>

\* fmt.Sprintf("%s/%s", OS, Architecture)
PlatformKey(os, arch) == os \o <<"/">> \o arch

\* Client.GetPlatformDigests: platform -> digest over the descriptors that have
\* a platform, a later descriptor of a platform replacing an earlier one.
RECURSIVE GetPlatformDigests(_)
GetPlatformDigests(manifests) ==
    IF Len(manifests) = 0 THEN <<>>
    ELSE LET n      == Len(manifests)
             before == GetPlatformDigests(SubSeq(manifests, 1, n - 1))
             desc   == manifests[n]
         IN  IF desc.hasPlatform
               THEN (PlatformKey(desc.os, desc.arch) :> desc.digest) @@ before
               ELSE before

\* Client.GetDigest: the digest the registry reports for a reference.
GetDigest(ref) ==
    IF dstForged THEN "sha256:forged" ELSE Digest(dstReg[ref])

\* Client.PushManifestList over the map platformImages, whose keys the range
\* loop yields in `order`: the index it builds, and the digest it returns if
\* the write succeeds.  A key without "/" ends in the panic of parts[1].
PushManifestList(manifestRef, platformImages, order, writeOk) ==
    LET platforms == SortStrings(order) IN
      IF \E i \in DOMAIN platforms : Len(SplitN(platforms[i])) < 2
        THEN [err |-> "panic: index out of range", manifests |-> <<>>, digest |-> ""]
        ELSE LET manifests ==
                   [i \in DOMAIN platforms |->
                      LET parts == SplitN(platforms[i]) IN
                        Descriptor(parts[1], parts[2],
                                   Digest(platformImages[platforms[i]]))]
             IN  IF writeOk
                   THEN [err |-> "", manifests |-> manifests,
                         digest |-> Digest(Index(manifests))]
                   ELSE [err |-> "failed to push manifest list",
                         manifests |-> manifests, digest |-> ""]


(***************************************************************************)
(* PmlSpec: Client.PushManifestList (internal/registry/client.go) called   *)
(* twice on the same platform -> image map, the range loop over the map    *)
(* yielding the keys in one order the first time, in another the second.   *)
(***************************************************************************)
\* The most platforms in the map.
MaxPlatforms == 3

PlatformKeys ==
    {PlatformKey(Linux, Amd64), PlatformKey(Linux, Arm64), PlatformKey(Linux, Arm),
     PlatformKey(Windows, Amd64), <<"w", "a", "s", "m">>}

\* The maps over the platforms `keys`: every platform with an image of its
\* own, or all platforms with the same image.
PmlImages(keys) ==
    {[k \in keys |-> Image("sha256:image-of-" \o Str(k))],
     [k \in keys |-> Image("sha256:m1")]}

DestV1 == <<"d", "e", "s", "t", ":", "v", "1">>

NotRun == [err |-> "not run", manifests |-> <<>>, digest |-> ""]

PmlInit ==
    /\ PlanInit
    /\ EngineIdle
    /\ CeIdle /\ ScIdle /\ VerIdle /\ AuIdle
    /\ StIdle /\ InsIdle
    /\ \E keys \in SUBSET PlatformKeys :
         /\ Cardinality(keys) <= MaxPlatforms
         /\ \E imgs \in PmlImages(keys), o1 \in Perms(keys), o2 \in Perms(keys) :
              pml = [images |-> imgs, orders |-> <<o1, o2>>,
                     out |-> <<NotRun, NotRun>>]

\* The n-th call: PushManifestList(manifestRef, platformImages).
PmlPush(n, writeOk) ==
    /\ pml.out[n] = NotRun
    /\ pml' = [pml EXCEPT !.out[n] =
                  PushManifestList(DestV1, pml.images, pml.orders[n], writeOk)]
    /\ UNCHANGED <<planVars, engineVars, ce, sc, ver, au, st, ins>>

PmlNext == \E n \in 1..2, writeOk \in BOOLEAN : PmlPush(n, writeOk)

PmlSpec == PmlInit /\ [][PmlNext]_vars

\* The platform keys of the model in lexicographic (byte) order.
LexOrder ==
    <<PlatformKey(Linux, Amd64), PlatformKey(Linux, Arm), PlatformKey(Linux, Arm64),
      <<"w", "a", "s", "m">>, PlatformKey(Windows, Amd64)>>

LexRank(key) == CHOOSE i \in DOMAIN LexOrder : LexOrder[i] = key

\* The platform keys of an index's manifests, in the order of the manifests.
KeysOf(manifests) ==
    [i \in DOMAIN manifests |-> PlatformKey(manifests[i].os, manifests[i].arch)]

\* C9: PushManifestList is independent of the order in which the map yields
\* its pairs: a call that returns a digest has appended one manifest per pair
\* of the map, in lexicographic order of the platform keys, each with the
\* digest of the image of its key, and two calls on the same pairs under any
\* two orders return the same digest for the same index.
C9_OrderIndependent ==
    /\ \A n \in 1..2 :
         pml.out[n].err = "" =>
           LET ms   == pml.out[n].manifests
               keys == KeysOf(ms)
           IN  /\ Len(ms) = Cardinality(DOMAIN pml.images)
               /\ \A i \in DOMAIN ms :
                    /\ keys[i] \in DOMAIN pml.images
                    /\ ms[i].digest = Digest(pml.images[keys[i]])
               /\ \A i \in DOMAIN ms, j \in DOMAIN ms :
                    i < j => LexRank(keys[i]) < LexRank(keys[j])
               /\ pml.out[n].digest = Digest(Index(ms))
    /\ (pml.out[1].err = "" /\ pml.out[2].err = "") =>
         /\ pml.out[1].manifests = pml.out[2].manifests
         /\ pml.out[1].digest = pml.out[2].digest

\* Both calls returned a digest for the same three pairs, which the map
\* yielded in different orders, neither of them the lexicographic one.
C9_Witness ==
    /\ pml.out[1].err = "" /\ pml.out[2].err = ""
    /\ Len(pml.orders[1]) = 3
    /\ pml.orders[1] # pml.orders[2]
    /\ pml.orders[1] # KeysOf(pml.out[1].manifests)
    /\ pml.orders[2] # KeysOf(pml.out[2].manifests)
    /\ pml.out[1].digest = pml.out[2].digest


(***************************************************************************)
(* SyncSpec: one call Syncer.SyncImage(srcImage, dstImage)                 *)
(* (internal/sync/sync.go) against a source and a destination registry.    *)
(* Every registry operation may fail; the range loop over platformDigests  *)
(* takes the platforms in any order.                                       *)
(***************************************************************************)
\* The most manifests in the source index.
MaxManifests == 3

\* The manifests a source index is made of: the two supported platforms, a
\* second linux/arm64 manifest, an unsupported platform, and a manifest
\* without platform.
ManifestPool ==
    {Descriptor(Linux, Amd64, "sha256:m1"), Descriptor(Linux, Arm64, "sha256:m2"),
     Descriptor(Linux, Arm64, "sha256:m5"), Descriptor(Windows, Amd64, "sha256:m3"),
     NoPlatformDescriptor("sha256:m4")}

SourceIndexes ==
    {ms \in UNION {[1..n -> ManifestPool] : n \in 0..MaxManifests} :
        \A i \in DOMAIN ms, j \in DOMAIN ms : i # j => ms[i] # ms[j]}

SourceContents == {Image("sha256:s0")} \cup {Index(ms) : ms \in SourceIndexes}

SrcRefs ==
    {<<"s", "r", "c", "@", "s", "h", "a", "2", "5", "6", ":", "a", "a">>,
     <<"h", "o", "s", "t", ":", "5", "0", "0", "0", "/", "s", "r", "c", ":", "v", "2">>}

DstRefs == {DestV1, <<"d", "e", "s", "t">>}

\* supportedPlatforms := []string{"linux/amd64", "linux/arm64"}
supportedPlatforms == <<PlatformKey(Linux, Amd64), PlatformKey(Linux, Arm64)>>

\* Every platform counts as supported.
supportedAny(platform) == TRUE

supported(platform) ==
    \E i \in DOMAIN supportedPlatforms : platform = supportedPlatforms[i]

\* A registry of the plan (RegistryBuilder): host and credentials.
Registry(host, username, password) ==
    [host |-> host, username |-> username, password |-> password]

\* registry.NewClient
NewClient(host, username, password) ==
    [host |-> host, username |-> username, password |-> password]

\* The clients Sync.execute builds: the source client from the source
\* registry if Source() was given one (a variadic argument, here a sequence of
\* at most one registry), else without credentials; the destination client
\* from the destination registry.
SyncExecuteClients(sync) ==
    [src |-> IF Len(sync.sourceRegistry) > 0
               THEN NewClient(sync.sourceRegistry[1].host,
                              sync.sourceRegistry[1].username,
                              sync.sourceRegistry[1].password)
               ELSE NewClient("", "", ""),
     dst |-> NewClient(sync.destRegistry.host, sync.destRegistry.username,
                       sync.destRegistry.password)]

\* Client.remoteOptions: basic authentication when the client has a username
\* and a password, no option (anonymous access) otherwise.
remoteOptions(client) ==
    IF client.username # "" /\ client.password # ""
      THEN <<[username |-> client.username, password |-> client.password]>>
      ELSE <<>>

\* A copy that writes with the options of the client it was called on.
WriteOptionsOfReceiver(client, dstClient) == remoteOptions(client)

\* CopyImage and CopyPlatformImage write to the destination with
\* dstClient.remoteOptions().
WriteOptions(client, dstClient) == remoteOptions(dstClient)

\* One registry operation: the client it went to ("src": syncer.srcClient,
\* "dst": syncer.dstClient), the reference it accessed with that client's
\* options and, for a copy, the destination reference it wrote and the
\* options it wrote it with.
Call(client, op, ref, to) ==
    LET receiver == IF client = "src" THEN sy.clients.src ELSE sy.clients.dst IN
      [client |-> client, op |-> op, ref |-> ref, to |-> to,
       options   |-> remoteOptions(receiver),
       toOptions |-> IF to = "" THEN <<>>
                     ELSE WriteOptions(receiver, sy.clients.dst)]

DockerHub == Registry("docker.io", "hubuser", "hubtoken")

Ghcr == Registry("ghcr.io", "ghcruser", "ghcrtoken")

\* A registered Sync as Sync.execute reads it: platforms, source registry
\* (none: the empty sequence) and destination registry.
SyncOf(platforms, sourceRegistry, destRegistry) ==
    [platforms |-> platforms, sourceRegistry |-> sourceRegistry,
     destRegistry |-> destRegistry]

\* The sync of the example plan: default platforms, no source registry.
DefaultSync == SyncOf(<<PlatformAMD64, PlatformARM64>>, <<>>, Ghcr)

\* Sync.execute calling syncer.SyncImage(sourceRef, destRef) for `sync`.
SyncImageCall(sync, srcImage, dstImage) ==
    [pc |-> "SyncImage", srcImage |-> srcImage, dstImage |-> dstImage,
     platformDigests |-> <<>>, todo |-> {}, platformImages |-> <<>>,
     img |-> Image(""), digest |-> "", err |-> "",
     sync |-> sync, clients |-> SyncExecuteClients(sync), first |-> <<>>]

SyncInit ==
    /\ PlanInit
    /\ PmlIdle
    /\ CeIdle /\ ScIdle /\ VerIdle /\ AuIdle
    /\ StIdle /\ InsIdle
    /\ srcReg \in SourceContents
    /\ dstForged \in BOOLEAN
    /\ calls = <<>>
    /\ \E srcImage \in SrcRefs, dstImage \in DstRefs :
         /\ sy = SyncImageCall(DefaultSync, srcImage, dstImage)
         \* the destination is empty, or holds an older image at dstImage
         /\ dstReg \in {<<>>, Str(dstImage) :> Image("sha256:old")}

\* return digest, err
Return(digest, err) == [sy EXCEPT !.pc = "done", !.digest = digest, !.err = err]

\* SyncImage up to its dispatch: srcClient.GetImage, then IsIndex().
SyncImageGetImage(getOk) ==
    /\ sy.pc = "SyncImage"
    /\ calls' = Append(calls, Call("src", "GetImage", Str(sy.srcImage), ""))
    /\ sy' = IF ~getOk THEN Return("", "failed to get source image")
             ELSE IF srcReg.isIndex THEN [sy EXCEPT !.pc = "syncMultiPlatform"]
             ELSE [sy EXCEPT !.pc = "syncSinglePlatform"]
    /\ UNCHANGED <<srcReg, dstReg, dstForged, planVars, callVars>>

\* syncMultiPlatform: srcClient.GetPlatformDigests.
syncMultiPlatformDigests(getOk) ==
    /\ sy.pc = "syncMultiPlatform"
    /\ calls' = Append(calls, Call("src", "GetPlatformDigests", Str(sy.srcImage), ""))
    /\ sy' = IF ~getOk THEN Return("", "failed to get platform digests")
             ELSE LET platformDigests == GetPlatformDigests(srcReg.manifests) IN
                    [sy EXCEPT !.pc = "range platformDigests",
                               !.platformDigests = platformDigests,
                               !.todo = DOMAIN platformDigests]
    /\ UNCHANGED <<srcReg, dstReg, dstForged, planVars, callVars>>

CopyOutcomes == {"copy failed", "fetch failed", "ok"}

\* The range loop that logs a failed copy or fetch and goes on to the next
\* platform instead of returning the error.
syncMultiPlatformLoopSkipFailed(platform, outcome) ==
    /\ sy.pc = "range platformDigests"
    /\ platform \in sy.todo
    /\ IF ~supported(platform)
         THEN /\ sy' = [sy EXCEPT !.todo = @ \ {platform}]
              /\ UNCHANGED <<dstReg, calls>>
         ELSE LET digest      == sy.platformDigests[platform]
                  dstPlatform == Str(sy.dstImage \o <<"-">> \o sanitizePlatform(platform))
                  copy        == Call("src", "CopyPlatformImage",
                                      Str(stripTag(sy.srcImage)) \o "@" \o digest,
                                      dstPlatform)
                  pushed      == (dstPlatform :> Image(digest)) @@ dstReg
              IN  IF outcome = "copy failed"
                    THEN /\ sy' = [sy EXCEPT !.todo = @ \ {platform}]
                         /\ calls' = Append(calls, copy)
                         /\ dstReg' = dstReg
                    ELSE /\ dstReg' = pushed
                         /\ calls' = calls \o
                              <<copy, Call("dst", "GetImageHandle", dstPlatform, "")>>
                         /\ sy' = IF outcome = "fetch failed"
                                    THEN [sy EXCEPT !.todo = @ \ {platform}]
                                    ELSE [sy EXCEPT
                                            !.todo = @ \ {platform},
                                            !.platformImages =
                                                (platform :> pushed[dstPlatform]) @@ @]
    /\ UNCHANGED <<srcReg, dstForged, planVars, callVars>>

\* One iteration of the range loop, for `platform`: skip it, or copy the
\* platform image to dstPlatform and fetch it from there.
syncMultiPlatformLoop(platform, outcome) ==
    /\ sy.pc = "range platformDigests"
    /\ platform \in sy.todo
    /\ IF ~supported(platform)
         THEN /\ sy' = [sy EXCEPT !.todo = @ \ {platform}]
              /\ UNCHANGED <<dstReg, calls>>
         ELSE LET digest      == sy.platformDigests[platform]
                  dstPlatform == Str(sy.dstImage \o <<"-">> \o sanitizePlatform(platform))
                  copy        == Call("src", "CopyPlatformImage",
                                      Str(stripTag(sy.srcImage)) \o "@" \o digest,
                                      dstPlatform)
                  pushed      == (dstPlatform :> Image(digest)) @@ dstReg
              IN  IF outcome = "copy failed"
                    THEN /\ sy' = Return("", "failed to copy platform " \o Str(platform))
                         /\ calls' = Append(calls, copy)
                         /\ dstReg' = dstReg
                    ELSE /\ dstReg' = pushed
                         /\ calls' = calls \o
                              <<copy, Call("dst", "GetImageHandle", dstPlatform, "")>>
                         /\ sy' = IF outcome = "fetch failed"
                                    THEN Return("", "failed to fetch pushed image for platform "
                                                      \o Str(platform))
                                    ELSE [sy EXCEPT
                                            !.todo = @ \ {platform},
                                            !.platformImages =
                                                (platform :> pushed[dstPlatform]) @@ @]
    /\ UNCHANGED <<srcReg, dstForged, planVars, callVars>>

\* syncMultiPlatform that refuses to push a manifest list without platforms.
syncMultiPlatformPushNonEmpty(order, writeOk) ==
    /\ sy.pc = "range platformDigests"
    /\ sy.todo = {}
    /\ LET out == PushManifestList(sy.dstImage, sy.platformImages, order, writeOk) IN
         /\ calls' = IF DOMAIN sy.platformImages = {} THEN calls
                      ELSE Append(calls, Call("dst", "PushManifestList", Str(sy.dstImage), ""))
         /\ dstReg' = IF out.err = "" /\ DOMAIN sy.platformImages # {}
                        THEN (Str(sy.dstImage) :> Index(out.manifests)) @@ dstReg
                        ELSE dstReg
         /\ sy' = IF DOMAIN sy.platformImages = {} THEN Return("", "no supported platform")
                  ELSE IF out.err = "" THEN Return(out.digest, "")
                  ELSE Return("", "failed to create manifest list: " \o out.err)
    /\ UNCHANGED <<srcReg, dstForged, planVars, callVars>>

\* After the loop: dstClient.PushManifestList(dstImage, platformImages).
syncMultiPlatformPush(order, writeOk) ==
    /\ sy.pc = "range platformDigests"
    /\ sy.todo = {}
    /\ LET out == PushManifestList(sy.dstImage, sy.platformImages, order, writeOk) IN
         /\ calls' = Append(calls, Call("dst", "PushManifestList", Str(sy.dstImage), ""))
         /\ dstReg' = IF out.err = ""
                        THEN (Str(sy.dstImage) :> Index(out.manifests)) @@ dstReg
                        ELSE dstReg
         /\ sy' = IF out.err = "" THEN Return(out.digest, "")
                  ELSE Return("", "failed to create manifest list: " \o out.err)
    /\ UNCHANGED <<srcReg, dstForged, planVars, callVars>>

\* syncSinglePlatform: srcClient.CopyImage(srcImage, dstImage, dstClient).
syncSinglePlatformCopy(copyOk) ==
    /\ sy.pc = "syncSinglePlatform"
    /\ calls' = Append(calls, Call("src", "CopyImage", Str(sy.srcImage), Str(sy.dstImage)))
    /\ dstReg' = IF copyOk THEN (Str(sy.dstImage) :> srcReg) @@ dstReg ELSE dstReg
    /\ sy' = IF copyOk THEN [sy EXCEPT !.pc = "GetImageHandle"]
             ELSE Return("", "failed to copy image")
    /\ UNCHANGED <<srcReg, dstForged, planVars, callVars>>

HandleOutcomes == {"handle failed", "digest failed", "ok"}

\* syncSinglePlatform that asks the destination for the digest.
syncSinglePlatformDigestQueried(outcome) ==
    /\ sy.pc = "GetImageHandle"
    /\ calls' = Append(calls, Call("dst", "GetDigest", Str(sy.dstImage), ""))
    /\ sy' = IF outcome = "ok" THEN Return(GetDigest(Str(sy.dstImage)), "")
             ELSE Return("", "failed to get destination image handle")
    /\ UNCHANGED <<srcReg, dstReg, dstForged, planVars, callVars>>

\* syncSinglePlatform: dstClient.GetImageHandle(dstImage), then img.Digest().
syncSinglePlatformDigest(outcome) ==
    /\ sy.pc = "GetImageHandle"
    /\ calls' = Append(calls, Call("dst", "GetImageHandle", Str(sy.dstImage), ""))
    /\ sy' = IF outcome = "handle failed"
               THEN Return("", "failed to get destination image handle")
             ELSE LET img == dstReg[Str(sy.dstImage)] IN
                    IF outcome = "digest failed"
                      THEN [Return("", "failed to compute image digest") EXCEPT !.img = img]
                      ELSE [Return(Digest(img), "") EXCEPT !.img = img]
    /\ UNCHANGED <<srcReg, dstReg, dstForged, planVars, callVars>>

SyncNext ==
    \/ \E getOk \in BOOLEAN : SyncImageGetImage(getOk)
    \/ \E getOk \in BOOLEAN : syncMultiPlatformDigests(getOk)
    \/ \E platform \in sy.todo, outcome \in CopyOutcomes :
            syncMultiPlatformLoop(platform, outcome)
    \/ \E order \in Perms(DOMAIN sy.platformImages), writeOk \in BOOLEAN :
            syncMultiPlatformPush(order, writeOk)
    \/ \E copyOk \in BOOLEAN : syncSinglePlatformCopy(copyOk)
    \/ \E outcome \in HandleOutcomes : syncSinglePlatformDigest(outcome)

SyncSpec == SyncInit /\ [][SyncNext]_vars


(***************************************************************************)
(* Sync.execute (sdk/sync.go) of one registered Sync, called by a first    *)
(* and, after it succeeded, by a second Plan.Execute of the same plan: it  *)
(* builds the two clients and calls SyncImage(sourceRef, destRef).  The    *)
(* Sync's platform list, its source registry and the source content vary.  *)
(***************************************************************************)
ExecContents ==
    {Image("sha256:s0"),
     Index(<<Descriptor(Linux, Amd64, "sha256:m1"), Descriptor(Linux, Arm64, "sha256:m2")>>),
     Index(<<Descriptor(Linux, Amd64, "sha256:m1"),
             Descriptor(Windows, Amd64, "sha256:m3")>>)}

ExecPlatformArgs == {<<PlatformAMD64, PlatformARM64>>, <<PlatformARM64>>}

ExecSourceRegistryArgs ==
    {<<>>, <<DockerHub>>, <<Registry("docker.io", "hubuser", "")>>}

ExecInit ==
    /\ PlanInit
    /\ PmlIdle
    /\ CeIdle /\ ScIdle /\ VerIdle /\ AuIdle
    /\ StIdle /\ InsIdle
    /\ srcReg \in ExecContents
    /\ dstForged = FALSE
    /\ calls = <<>>
    /\ dstReg = <<>>
    /\ \E srcImage \in SrcRefs, dstImage \in DstRefs,
          platforms \in ExecPlatformArgs, sourceRegistry \in ExecSourceRegistryArgs :
         sy = SyncImageCall(SyncOf(platforms, sourceRegistry, Ghcr), srcImage, dstImage)

\* The plan is executed a second time: Sync.execute calls SyncImage again
\* with the same references, on the destination the first run left.
SyncAgain ==
    /\ sy.pc = "done"
    /\ sy.err = ""
    /\ Len(sy.first) = 0
    /\ sy' = [SyncImageCall(sy.sync, sy.srcImage, sy.dstImage) EXCEPT
                !.first = <<[dstReg |-> dstReg, digest |-> sy.digest,
                             calls |-> Len(calls)]>>]
    /\ UNCHANGED <<srcReg, dstReg, dstForged, calls, planVars, callVars>>

ExecNext ==
    \/ \E getOk \in BOOLEAN : SyncImageGetImage(getOk)
    \/ \E getOk \in BOOLEAN : syncMultiPlatformDigests(getOk)
    \/ \E platform \in sy.todo, outcome \in CopyOutcomes :
            syncMultiPlatformLoop(platform, outcome)
    \/ \E order \in Perms(DOMAIN sy.platformImages), writeOk \in BOOLEAN :
            syncMultiPlatformPush(order, writeOk)
    \/ \E copyOk \in BOOLEAN : syncSinglePlatformCopy(copyOk)
    \/ \E outcome \in HandleOutcomes : syncSinglePlatformDigest(outcome)
    \/ SyncAgain

ExecSpec == ExecInit /\ [][ExecNext]_vars


(***************************************************************************)
(* Properties of SyncImage.                                                *)
(***************************************************************************)
Returned == sy.pc = "done" /\ sy.err = ""

\* The indices of the calls of operation op.
CallsOf(op) == {i \in DOMAIN calls : calls[i].op = op}

\* The index that lists, in `order`, the images fetched for the platforms.
IndexOfFetched(order) ==
    Index([i \in DOMAIN order |->
             Descriptor(SplitN(order[i])[1], SplitN(order[i])[2],
                        Digest(sy.platformImages[order[i]]))])

\* C8: SyncImage never asks a registry for a digest, and fetches from the
\* destination only what the call before pushed there; when it returns
\* successfully, the digest it returns is, on the single-platform path, the
\* digest computed from the image it fetched last from dstImage, and on the
\* multi-platform path the digest computed from the index of the images it
\* fetched from the destination, whatever the destination would answer to
\* a digest query.
C8_DigestComputedLocally ==
    /\ CallsOf("GetDigest") = {}
    /\ \A i \in CallsOf("GetImageHandle") :
         /\ calls[i].client = "dst"
         /\ i > 1
         /\ calls[i - 1].op \in {"CopyImage", "CopyPlatformImage"}
         /\ calls[i - 1].to = calls[i].ref
    /\ Returned =>
         IF srcReg.isIndex
           THEN /\ \A p \in DOMAIN sy.platformImages :
                     \E i \in CallsOf("GetImageHandle") :
                        sy.platformImages[p] = dstReg[calls[i].ref]
                /\ \E order \in Perms(DOMAIN sy.platformImages) :
                     sy.digest = Digest(IndexOfFetched(order))
           ELSE /\ calls[Len(calls)] =
                     Call("dst", "GetImageHandle", Str(sy.dstImage), "")
                /\ sy.img = dstReg[Str(sy.dstImage)]
                /\ sy.digest = Digest(sy.img)
    /\ (Returned /\ dstForged) => sy.digest # "sha256:forged"

\* A multi-platform sync returned the digest of an index of two fetched
\* images, to a destination that held an older image and that forges its
\* answers to digest queries.
C8_Witness ==
    /\ Returned
    /\ srcReg.isIndex
    /\ dstForged
    /\ Cardinality(DOMAIN sy.platformImages) = 2
    /\ Cardinality(CallsOf("GetImageHandle")) = 2
    /\ sy.digest = Digest(dstReg[Str(sy.dstImage)])
    /\ sy.digest # "sha256:old"

\* The platforms of the source index.
SourcePlatforms ==
    {PlatformKey(srcReg.manifests[i].os, srcReg.manifests[i].arch) :
        i \in {j \in DOMAIN srcReg.manifests : srcReg.manifests[j].hasPlatform}}

Retained == SourcePlatforms \cap {PlatformKey(Linux, Amd64), PlatformKey(Linux, Arm64)}

\* The destination reference of a retained platform, as the specification
\* spells it.
SuffixedRef(platform) ==
    Str(sy.dstImage) \o (IF platform = PlatformKey(Linux, Amd64) THEN "-amd64"
                                                                ELSE "-arm64")

\* The repository of the source reference.
SourceRepository ==
    IF Str(sy.srcImage) = "src@sha256:aa" THEN "src" ELSE "host:5000/src"

\* The errors SyncImage returns on a per-platform step name a supported platform.
PlatformErrors ==
    {m \o p : m \in {"failed to copy platform ",
                     "failed to fetch pushed image for platform "},
              p \in {"linux/amd64", "linux/arm64"}}

\* C10: for a source that is an image index, a successful SyncImage has
\* copied exactly the source platforms that are linux/amd64 or linux/arm64,
\* each once, from the source repository by the platform's digest to dstImage
\* suffixed with "-" and the architecture; no other platform was copied and
\* none made the call fail; and the destination holds at dstImage a manifest
\* list with one manifest per retained platform, that of the image copied for
\* it.
C10_MultiPlatformSync ==
    /\ (sy.pc = "done" /\ srcReg.isIndex) =>
         sy.err \in {"", "failed to get source image", "failed to get platform digests",
                     "failed to create manifest list: failed to push manifest list"}
                       \cup PlatformErrors
    /\ (Returned /\ srcReg.isIndex) =>
         LET list == dstReg[Str(sy.dstImage)] IN
           /\ Cardinality(CallsOf("CopyPlatformImage")) = Cardinality(Retained)
           /\ {calls[i].to : i \in CallsOf("CopyPlatformImage")}
                = {SuffixedRef(p) : p \in Retained}
           /\ \A i \in CallsOf("CopyPlatformImage") :
                \E j \in DOMAIN srcReg.manifests :
                   LET d == srcReg.manifests[j] IN
                     /\ d.hasPlatform
                     /\ PlatformKey(d.os, d.arch) \in Retained
                     /\ calls[i].to = SuffixedRef(PlatformKey(d.os, d.arch))
                     /\ calls[i].ref = SourceRepository \o "@" \o d.digest
                     /\ dstReg[calls[i].to] = Image(d.digest)
           /\ list.isIndex
           /\ Len(list.manifests) = Cardinality(Retained)
           /\ {KeysOf(list.manifests)[i] : i \in DOMAIN list.manifests} = Retained
           /\ \A i \in DOMAIN list.manifests :
                list.manifests[i].digest =
                    Digest(dstReg[SuffixedRef(KeysOf(list.manifests)[i])])

\* The example of the specification: an index of linux/amd64, linux/arm64 and
\* windows/amd64 synced to dest:v1.
C10_Witness ==
    /\ Returned
    /\ srcReg.isIndex
    /\ SourcePlatforms = {PlatformKey(Linux, Amd64), PlatformKey(Linux, Arm64),
                          PlatformKey(Windows, Amd64)}
    /\ Str(sy.dstImage) = "dest:v1"
    /\ dstReg["dest:v1-amd64"] = Image("sha256:m1")
    /\ dstReg["dest:v1-arm64"] = Image("sha256:m2")
    /\ dstReg["dest:v1"].isIndex
    /\ Len(dstReg["dest:v1"].manifests) = 2

\* C18: for a source index none of whose platforms is linux/amd64 or
\* linux/arm64, SyncImage copies and fetches no platform image and fails only
\* when one of its three registry operations fails, that operation being its
\* last; otherwise its last operation pushed the manifest list without
\* manifests at dstImage, which the destination now holds, and it returned the
\* digest of that empty list.
C18_NoRetainedPlatform ==
    (sy.pc = "done" /\ srcReg.isIndex /\ Retained = {}) =>
        /\ CallsOf("CopyPlatformImage") = {}
        /\ CallsOf("GetImageHandle") = {}
        /\ sy.err \in {"", "failed to get source image", "failed to get platform digests",
                       "failed to create manifest list: failed to push manifest list"}
        /\ calls[Len(calls)].op =
             (IF sy.err = "failed to get source image" THEN "GetImage"
              ELSE IF sy.err = "failed to get platform digests" THEN "GetPlatformDigests"
              ELSE "PushManifestList")
        /\ sy.err = "" =>
             /\ calls[Len(calls)] = Call("dst", "PushManifestList", Str(sy.dstImage), "")
             /\ Cardinality(CallsOf("PushManifestList")) = 1
             /\ dstReg[Str(sy.dstImage)] = Index(<<>>)
             /\ sy.digest = Digest(Index(<<>>))
             /\ sy.digest # ""

\* An index of a windows/amd64 manifest and a manifest without platform was
\* synced to a destination that held an older image: the destination holds
\* the empty list and nothing else.
C18_Witness ==
    /\ Returned
    /\ srcReg.isIndex
    /\ Len(srcReg.manifests) = 2
    /\ SourcePlatforms = {PlatformKey(Windows, Amd64)}
    /\ Len(calls) = 3
    /\ DOMAIN dstReg = {Str(sy.dstImage)}
    /\ dstReg[Str(sy.dstImage)] = Index(<<>>)
    /\ sy.digest = Digest(Index(<<>>))

\* The platforms of the Sync's list, Platforms(...) or the default.
SyncPlatforms == {sy.sync.platforms[j] : j \in DOMAIN sy.sync.platforms}

\* C23: the platforms a multi-platform Sync copies are those of its platform
\* list: every platform image that was copied and fetched, and every manifest
\* of the manifest list at the destination, is of a platform in the list.
C23_PlatformsConfigurable ==
    /\ \A p \in DOMAIN sy.platformImages : Str(p) \in SyncPlatforms
    /\ (Returned /\ srcReg.isIndex) =>
         LET list == dstReg[Str(sy.dstImage)] IN
           \A i \in DOMAIN list.manifests :
              Str(KeysOf(list.manifests)[i]) \in SyncPlatforms

\* A Sync with Platforms(linux/arm64) copied linux/amd64 and listed it.
C23_Witness ==
    /\ Returned
    /\ sy.sync.platforms = <<PlatformARM64>>
    /\ PlatformKey(Linux, Amd64) \in DOMAIN sy.platformImages
    /\ \E i \in CallsOf("CopyPlatformImage") :
          calls[i].to = Str(sy.dstImage) \o "-amd64"

\* The calls of the second execution.
SecondRunCalls == {i \in DOMAIN calls : Len(sy.first) > 0 /\ i > sy.first[1].calls}

\* C25: executing a Sync whose destination already holds the source content
\* (a second execution of the plan) copies and pushes nothing, leaves the
\* destination as it was and yields the same destination digest.
C25_Idempotent ==
    /\ \A i \in SecondRunCalls :
          calls[i].op \notin {"CopyImage", "CopyPlatformImage", "PushManifestList"}
    /\ (Len(sy.first) > 0 /\ Returned) =>
          /\ dstReg = sy.first[1].dstReg
          /\ sy.digest = sy.first[1].digest

\* The second execution copied to and pushed at the destination again, and
\* returned the digest of the first.
C25_Witness ==
    /\ Len(sy.first) > 0
    /\ Returned
    /\ \E i \in SecondRunCalls : calls[i].op \in {"CopyImage", "CopyPlatformImage"}
    /\ sy.digest = sy.first[1].digest

\* The credentials of a registry, if it has both: what a request made on
\* its behalf may carry.
Credentials(registry) ==
    IF registry.username # "" /\ registry.password # ""
      THEN <<[username |-> registry.username, password |-> registry.password]>>
      ELSE <<>>

SourceCredentials ==
    IF Len(sy.sync.sourceRegistry) = 0 THEN <<>>
    ELSE Credentials(sy.sync.sourceRegistry[1])

\* C26: during a sync every read from the source goes through the source
\* client with the source registry's credentials (anonymous when no source
\* registry is given), and every push to and fetch from the destination
\* carries the destination registry's credentials; neither registry's
\* credentials are used with the other.
C26_CredentialsScoped ==
    \A i \in DOMAIN calls :
        /\ calls[i].op \in {"GetImage", "GetPlatformDigests", "CopyImage",
                             "CopyPlatformImage"}
              => /\ calls[i].client = "src"
                 /\ calls[i].options = SourceCredentials
        /\ calls[i].op \in {"GetImageHandle", "PushManifestList", "GetDigest"}
              => /\ calls[i].client = "dst"
                 /\ calls[i].options = Credentials(sy.sync.destRegistry)
        /\ calls[i].to # "" => calls[i].toOptions = Credentials(sy.sync.destRegistry)
        /\ calls[i].to = "" => calls[i].toOptions = <<>>

\* A sync from a source registry with credentials completed: it read with
\* those and wrote with the destination's.
C26_Witness ==
    /\ Returned
    /\ sy.sync.sourceRegistry = <<DockerHub>>
    /\ \E i \in CallsOf("CopyPlatformImage") :
          /\ calls[i].options = <<[username |-> "hubuser", password |-> "hubtoken"]>>
          /\ calls[i].toOptions = <<[username |-> "ghcruser", password |-> "ghcrtoken"]>>
    /\ \E i \in CallsOf("PushManifestList") :
          calls[i].options = <<[username |-> "ghcruser", password |-> "ghcrtoken"]>>

\* The position of the ':' that starts the tag of a reference, from position
\* i down: 0 if a '/' or the start comes first.
RECURSIVE TagColon(_, _)
TagColon(ref, i) ==
    IF i < 1 THEN 0
    ELSE IF ref[i] = ":" THEN i
    ELSE IF ref[i] = "/" THEN 0
    ELSE TagColon(ref, i - 1)

\* name.ParseReference on a tag reference: repository and tag, the tag being
\* latest when the reference has none.
ParseReference(ref) ==
    LET colon == TagColon(ref, Len(ref)) IN
      IF colon = 0
        THEN [repository |-> ref, tag |-> <<"l", "a", "t", "e", "s", "t">>]
        ELSE [repository |-> SubSeq(ref, 1, colon - 1),
              tag |-> SubSeq(ref, colon + 1, Len(ref))]

\* C30: each platform image is pushed into the repository of the destination
\* reference, under that reference's tag extended by "-" and the
\* architecture, also when the destination image has no version.
C30_PlatformRefSameRepository ==
    \A i \in CallsOf("CopyPlatformImage") :
        \E arch \in {Amd64, Arm64} :
            LET to == sy.dstImage \o <<"-">> \o arch IN
              /\ calls[i].to = Str(to)
              /\ ParseReference(to).repository = ParseReference(sy.dstImage).repository
              /\ ParseReference(to).tag =
                    ParseReference(sy.dstImage).tag \o <<"-">> \o arch

\* A sync to the destination reference dest, which has no tag, pushed the
\* linux/amd64 image to dest-amd64 and the manifest list to dest.
C30_Witness ==
    /\ Returned
    /\ Str(sy.dstImage) = "dest"
    /\ "dest-amd64" \in DOMAIN dstReg
    /\ dstReg["dest"].isIndex
    /\ ParseReference(<<"d", "e", "s", "t", "-", "a", "m", "d", "6", "4">>).repository
          # ParseReference(sy.dstImage).repository

\* The destination holds a manifest list at dstImage.
ListAtDestination ==
    /\ Str(sy.dstImage) \in DOMAIN dstReg
    /\ dstReg[Str(sy.dstImage)].isIndex

\* C32: on the multi-platform path, when the copy or the fetch of a retained
\* platform image fails, SyncImage returns an error and the destination
\* reference receives no manifest list; the platform images pushed before
\* stay at their suffixed references; and a manifest list is pushed only
\* after every retained platform was copied and fetched.
C32_NoListAfterPlatformFailure ==
    /\ (sy.pc = "done" /\ sy.err \in PlatformErrors) =>
          /\ CallsOf("PushManifestList") = {}
          /\ ~ListAtDestination
    /\ srcReg.isIndex =>
          \A i \in CallsOf("GetImageHandle") :
              /\ calls[i].ref \in DOMAIN dstReg
              /\ \E p \in Retained :
                    /\ calls[i].ref = SuffixedRef(p)
                    /\ dstReg[calls[i].ref] = Image(sy.platformDigests[p])
    /\ \A i \in CallsOf("PushManifestList") :
          /\ DOMAIN sy.platformImages = Retained
          /\ \A p \in Retained :
                \E j \in CallsOf("CopyPlatformImage") :
                    /\ j + 1 < i
                    /\ calls[j].to = SuffixedRef(p)
                    /\ calls[j + 1].op = "GetImageHandle"
                    /\ calls[j + 1].ref = SuffixedRef(p)

\* The fetch of the second platform image failed: SyncImage returned the
\* error, both platform images are at the destination, no manifest list is.
C32_Witness ==
    /\ sy.pc = "done"
    /\ sy.err \in {"failed to fetch pushed image for platform " \o p :
                      p \in {"linux/amd64", "linux/arm64"}}
    /\ Str(sy.dstImage) = "dest:v1"
    /\ Cardinality(CallsOf("CopyPlatformImage")) = 2
    /\ {"dest:v1-amd64", "dest:v1-arm64"} \subseteq DOMAIN dstReg
    /\ ~dstReg["dest:v1-amd64"].isIndex
    /\ ~ListAtDestination


(***************************************************************************)
(* ExistsSpec: one call of Client.CheckExists (internal/registry/          *)
(* client.go) on a reference, against a registry that holds the reference  *)
(* or not and that answers, or fails in one of several ways.               *)
(***************************************************************************)
ErrParseImageReference == "failed to parse image reference"

\* http.StatusNotFound
StatusNotFound == 404

\* The characters of a repository name and of a tag.
ReferenceChars ==
    {ByteOrder[i] : i \in DOMAIN ByteOrder} \ {"@"}

\* name.ParseReference over the references of the model: whether it
\* returns an error.  A reference needs a repository name, and accepts
\* neither upper-case letters in it nor blanks.
ParseReferenceFails(imageRef) ==
    \/ Len(imageRef) < 2
    \/ \E i \in DOMAIN imageRef : imageRef[i] \notin ReferenceChars

CheckExistsRefs ==
    {DestV1, <<"d", "e", "s", "t">>,
     <<"h", "o", "s", "t", ":", "5", "0", "0", "0", "/", "s", "r", "c", ":", "v", "2">>,
     <<>>, <<"D", "e", "s", "t", ":", "v", "1">>, <<"d", "e", " ", "s", "t">>}

\* What goes wrong between the client and the registry: nothing, a response
\* with an error status, or no response at all.
NoFault == [kind |-> "none", status |-> 0]

TransportError(status) == [kind |-> "transport.Error", status |-> status]

NetworkError == [kind |-> "net.OpError", status |-> 0]

Faults ==
    {NoFault, NetworkError} \cup {TransportError(c) : c \in {401, 403, 404, 429, 500}}

\* remote.Get(ref): the descriptor, or the error.  A registry that answers
\* and does not hold the reference answers 404.
RemoteGet(present, fault) ==
    IF fault # NoFault THEN fault
    ELSE IF present THEN NoFault
    ELSE TransportError(StatusNotFound)

\* Client.CheckExists that takes every error response for "not found".
CheckExistsLenient(imageRef, present, fault) ==
    IF ParseReferenceFails(imageRef)
      THEN [exists |-> FALSE, err |-> ErrParseImageReference]
    ELSE LET err == RemoteGet(present, fault) IN
           IF err = NoFault THEN [exists |-> TRUE, err |-> ""]
           ELSE IF err.kind = "transport.Error" THEN [exists |-> FALSE, err |-> ""]
           ELSE [exists |-> FALSE, err |-> "failed to check image existence"]

\* Client.CheckExists(imageRef): (exists, err), err "" standing for nil.
CheckExists(imageRef, present, fault) ==
    IF ParseReferenceFails(imageRef)
      THEN [exists |-> FALSE, err |-> ErrParseImageReference]
    ELSE LET err == RemoteGet(present, fault) IN
           IF err = NoFault THEN [exists |-> TRUE, err |-> ""]
           ELSE IF err.kind = "transport.Error" /\ err.status = StatusNotFound
             THEN [exists |-> FALSE, err |-> ""]
           ELSE [exists |-> FALSE, err |-> "failed to check image existence"]

ExistsInit ==
    /\ PlanInit
    /\ EngineIdle
    /\ PmlIdle /\ ScIdle /\ VerIdle /\ AuIdle
    /\ StIdle /\ InsIdle
    /\ \E imageRef \in CheckExistsRefs, present \in BOOLEAN, fault \in Faults :
         ce = [pc |-> "CheckExists", imageRef |-> imageRef, present |-> present,
               fault |-> fault, out |-> [exists |-> FALSE, err |-> ""]]

CheckExistsCall ==
    /\ ce.pc = "CheckExists"
    /\ ce' = [ce EXCEPT !.pc = "done",
                        !.out = CheckExists(ce.imageRef, ce.present, ce.fault)]
    /\ UNCHANGED <<planVars, engineVars, pml, sc, ver, au, st, ins>>

ExistsNext == CheckExistsCall

ExistsSpec == ExistsInit /\ [][ExistsNext]_vars

\* The references of the model that are not well-formed.
Malformed == {<<>>, <<"D", "e", "s", "t", ":", "v", "1">>, <<"d", "e", " ", "s", "t">>}

\* C12: CheckExists returns (true, nil) exactly when the reference is
\* well-formed and the registry answers and holds it; (false, nil) exactly
\* when the reference is well-formed and the registry answers with status
\* 404; and false with an error in every other case: a malformed reference,
\* a response with another error status, no response.  It never returns true with
\* an error.
C12_CheckExists ==
    ce.pc = "done" =>
        LET notFound == \/ ce.fault = TransportError(404)
                        \/ ce.fault = NoFault /\ ~ce.present
            found    == ce.fault = NoFault /\ ce.present
        IN  /\ ce.out.exists => ce.out.err = ""
            /\ ce.out = [exists |-> TRUE, err |-> ""]
                 <=> (ce.imageRef \notin Malformed /\ found)
            /\ ce.out = [exists |-> FALSE, err |-> ""]
                 <=> (ce.imageRef \notin Malformed /\ notFound)
            /\ ce.imageRef \in Malformed =>
                 ce.out = [exists |-> FALSE, err |-> ErrParseImageReference]
            /\ (ce.imageRef \notin Malformed /\ ~found /\ ~notFound) =>
                 ce.out = [exists |-> FALSE, err |-> "failed to check image existence"]

\* The registry answered 401 to a well-formed reference it holds: CheckExists
\* returned false and the error.
C12_Witness ==
    /\ ce.pc = "done"
    /\ Str(ce.imageRef) = "dest:v1"
    /\ ce.present
    /\ ce.fault = TransportError(401)
    /\ ce.out = [exists |-> FALSE, err |-> "failed to check image existence"]


(***************************************************************************)
(* ScanSpec: one call of Scan.execute (sdk/scan.go) on a scan with its     *)
(* severity checks and its format, trivy reporting a set of                *)
(* vulnerabilities; one step per iteration of the loop over the checks.    *)
(***************************************************************************)
\* The most severity checks of a scan.
MaxChecks == 2

SeverityUnknown  == "UNKNOWN"
SeverityLow      == "LOW"
SeverityMedium   == "MEDIUM"
SeverityHigh     == "HIGH"
SeverityCritical == "CRITICAL"

ActionError == "error"
ActionWarn  == "warn"
ActionInfo  == "info"

FormatTable == "table"
FormatJSON  == "json"
FormatSARIF == "sarif"

errUnsupportedFormat == "unsupported format"

\* severityOrder[severity], 0 for a string that is no key of the map.
severityOrder(severity) ==
    IF severity = SeverityLow THEN 1
    ELSE IF severity = SeverityMedium THEN 2
    ELSE IF severity = SeverityHigh THEN 3
    ELSE IF severity = SeverityCritical THEN 4
    ELSE 0

\* trivy.Vulnerability
Vulnerability(id, severity) == [VulnerabilityID |-> id, Severity |-> severity]

\* The vulnerabilities the two range loops of getVulnerabilitiesAtOrAbove
\* visit, in the order they visit them; a trivy.Result is its
\* Vulnerabilities.
RECURSIVE rangeResults(_)
rangeResults(results) ==
    IF results = <<>> THEN <<>>
    ELSE Head(results) \o rangeResults(Tail(results))

\* The filter that keeps only the vulnerabilities above the threshold.
getVulnerabilitiesAbove(scanResult, threshold) ==
    SelectSeq(rangeResults(scanResult),
              LAMBDA vuln : severityOrder(vuln.Severity) > severityOrder(threshold))

\* getVulnerabilitiesAtOrAbove(result, threshold): the matching
\* vulnerabilities in the order of result.Results.
getVulnerabilitiesAtOrAbove(scanResult, threshold) ==
    SelectSeq(rangeResults(scanResult),
              LAMBDA vuln : severityOrder(vuln.Severity) >= severityOrder(threshold))

\* Scanner.FormatOutput(result, format): the error it returns, "" for nil.
FormatOutput(format) ==
    IF format \in {"table", "json"} THEN ""
    ELSE errUnsupportedFormat \o ": " \o format

\* ScanBuilder.Severity(threshold, action...)
SeverityChecks ==
    {[threshold |-> t, action |-> a] :
        t \in {SeverityUnknown, SeverityLow, SeverityMedium, SeverityHigh,
               SeverityCritical},
        a \in {ActionError, ActionWarn, ActionInfo}}

\* The orders of the elements of a slice.
SeqPerms(slice) ==
    {[i \in DOMAIN slice |-> slice[o[i]]] : o \in Perms(DOMAIN slice)}

\* The scan results that hold the results of scanResult, and each result the
\* vulnerabilities it holds in scanResult, in any order.
Reorderings(scanResult) ==
    UNION {{r \in [DOMAIN o -> UNION {SeqPerms(o[i]) : i \in DOMAIN o}] :
                \A i \in DOMAIN o : r[i] \in SeqPerms(o[i])} :
              o \in SeqPerms(scanResult)}

\* What ScanImage reports: the results of the platforms scanned, each with
\* the vulnerabilities found, in every order.
ScanResults ==
    UNION {Reorderings(scanResult) : scanResult \in
        {<<>>,
         <<<<Vulnerability("CVE-1", SeverityLow)>>>>,
         <<<<Vulnerability("CVE-1", SeverityLow), Vulnerability("CVE-2", SeverityHigh)>>>>,
         <<<<Vulnerability("CVE-3", SeverityCritical)>>,
           <<Vulnerability("CVE-4", SeverityMedium)>>>>,
         <<<<Vulnerability("CVE-5", SeverityUnknown)>>, <<>>>>,
         <<<<Vulnerability("CVE-2", SeverityHigh)>>,
           <<Vulnerability("CVE-2", SeverityHigh), Vulnerability("CVE-4", SeverityMedium)>>>>}}

ScanInit ==
    /\ PlanInit
    /\ EngineIdle
    /\ PmlIdle /\ CeIdle /\ VerIdle /\ AuIdle
    /\ StIdle /\ InsIdle
    /\ \E checks \in UNION {[1..n -> SeverityChecks] : n \in 0..MaxChecks},
          format \in {FormatTable, FormatJSON, FormatSARIF},
          digest \in {"", "sha256:aa"} :
         sc = [pc |-> "execute", digest |-> digest, severityChecks |-> checks,
               format |-> format, result |-> <<>>, idx |-> 1, evaluated |-> <<>>,
               matching |-> <<>>,
               logged |-> <<>>, err |-> ""]

\* return err
ScanReturn(err) == [sc EXCEPT !.pc = "done", !.err = err]

\* Scan.execute up to the loop: the digest check, then scanner.ScanImage.
ScanExecuteScanImage(scanOk, scanResult) ==
    /\ sc.pc = "execute"
    /\ sc' = IF sc.digest = "" THEN ScanReturn(errScanMustHaveDigest)
             ELSE IF ~scanOk THEN ScanReturn("failed to scan image")
             ELSE [sc EXCEPT !.pc = "range severityChecks", !.result = scanResult]
    /\ UNCHANGED <<planVars, engineVars, pml, ce, ver, au, st, ins>>

\* One iteration of the loop over scan.severityChecks.
ScanExecuteCheck ==
    /\ sc.pc = "range severityChecks"
    /\ sc.idx <= Len(sc.severityChecks)
    /\ LET check         == sc.severityChecks[sc.idx]
           matchingVulns == getVulnerabilitiesAtOrAbove(sc.result, check.threshold)
           seen          == [sc EXCEPT !.evaluated = Append(@, sc.idx), !.idx = @ + 1,
                                       !.matching = Append(@, matchingVulns)]
       IN  sc' = IF Len(matchingVulns) = 0 THEN seen
                 ELSE IF FormatOutput(sc.format) # ""
                   THEN [seen EXCEPT !.pc = "done",
                                     !.err = "failed to format output: "
                                               \o FormatOutput(sc.format)]
                 ELSE IF check.action = ActionError
                   THEN [seen EXCEPT !.pc = "done",
                                     !.logged = Append(@, <<ActionError, check.threshold>>),
                                     !.err = errVulnerabilitiesFound \o ": "
                                               \o check.threshold]
                 ELSE [seen EXCEPT !.logged = Append(@, <<check.action, check.threshold>>)]
    /\ UNCHANGED <<planVars, engineVars, pml, ce, ver, au, st, ins>>

\* After the loop: "scan complete", return nil.
ScanExecuteComplete ==
    /\ sc.pc = "range severityChecks"
    /\ sc.idx > Len(sc.severityChecks)
    /\ sc' = ScanReturn("")
    /\ UNCHANGED <<planVars, engineVars, pml, ce, ver, au, st, ins>>

ScanNext ==
    \/ \E scanOk \in BOOLEAN, scanResult \in ScanResults :
            ScanExecuteScanImage(scanOk, scanResult)
    \/ ScanExecuteCheck
    \/ ScanExecuteComplete

ScanSpec == ScanInit /\ [][ScanNext]_vars

\* The scan got its result from trivy.
Scanned == sc.pc = "done" /\ sc.err \notin {errScanMustHaveDigest, "failed to scan image"}

\* Check i has action error and a vulnerability at or above its threshold.
ErrorMatches(i) ==
    /\ sc.severityChecks[i].action = ActionError
    /\ \E r \in DOMAIN sc.result : \E v \in DOMAIN sc.result[r] :
         severityOrder(sc.result[r][v].Severity)
             >= severityOrder(sc.severityChecks[i].threshold)

\* C13: a scan that got its result evaluates its severity checks in
\* declaration order; if some check has action error and a vulnerability at
\* or above its threshold, the scan fails at the first such check and
\* evaluates no later check; otherwise it evaluates all checks and succeeds:
\* warn and info checks never make it fail.
C13_FirstErrorWins ==
    Scanned =>
        LET n       == Len(sc.severityChecks)
            errors  == {i \in 1..n : ErrorMatches(i)}
            stop    == IF errors = {} THEN n
                       ELSE CHOOSE i \in errors : \A j \in errors : i <= j
        IN  /\ sc.evaluated = [i \in 1..stop |-> i]
            /\ sc.err # "" <=> errors # {}

\* A scan with format sarif and the single check (LOW, warn) found one LOW
\* vulnerability and failed.
C13_Witness ==
    /\ sc.pc = "done"
    /\ sc.format = FormatSARIF
    /\ sc.severityChecks = <<[threshold |-> SeverityLow, action |-> ActionWarn]>>
    /\ sc.result = <<<<Vulnerability("CVE-1", SeverityLow)>>>>
    /\ sc.err = "failed to format output: unsupported format: sarif"

\* The rank of a severity: UNKNOWN < LOW < MEDIUM < HIGH < CRITICAL.
Rank(severity) ==
    CHOOSE n \in 1..5 :
        <<"UNKNOWN", "LOW", "MEDIUM", "HIGH", "CRITICAL">>[n] = severity

\* The vulnerabilities of all results of scanResult at or above threshold.
AtOrAbove(scanResult, threshold) ==
    {scanResult[r][v] : <<r, v>> \in
        {<<r, v>> \in UNION {{<<i, j>> : j \in DOMAIN scanResult[i]} :
                                 i \in DOMAIN scanResult} :
            Rank(scanResult[r][v].Severity) >= Rank(threshold)}}

SetOf(slice) == {slice[i] : i \in DOMAIN slice}

\* C34: getVulnerabilitiesAtOrAbove returns exactly the vulnerabilities of
\* all results whose severity rank (UNKNOWN < LOW < MEDIUM < HIGH < CRITICAL)
\* is greater than or equal to the threshold's rank, and the same set for
\* every ordering of the results and of the vulnerabilities within them.
C34_AtOrAbove ==
    \A k \in DOMAIN sc.matching :
        LET threshold == sc.severityChecks[sc.evaluated[k]].threshold IN
            /\ SetOf(sc.matching[k]) = AtOrAbove(sc.result, threshold)
            /\ \A reordered \in Reorderings(sc.result) :
                  /\ SetOf(getVulnerabilitiesAtOrAbove(reordered, threshold))
                        = SetOf(sc.matching[k])
                  /\ Len(getVulnerabilitiesAtOrAbove(reordered, threshold))
                        = Len(sc.matching[k])

\* Trivy reported CVE-2 (HIGH) in both results and CVE-4 (MEDIUM) in one;
\* the check with threshold MEDIUM matched all three, the check with
\* threshold HIGH the two of CVE-2.
C34_Witness ==
    /\ Len(sc.matching) = 2
    /\ sc.severityChecks[1].threshold = SeverityMedium
    /\ sc.severityChecks[2].threshold = SeverityHigh
    /\ Len(sc.result) = 2
    /\ sc.result[1] = <<Vulnerability("CVE-4", SeverityMedium),
                        Vulnerability("CVE-2", SeverityHigh)>>
    /\ Len(sc.matching[1]) = 3
    /\ sc.matching[2] = <<Vulnerability("CVE-2", SeverityHigh),
                          Vulnerability("CVE-2", SeverityHigh)>>


(***************************************************************************)
(* The functions of internal/version: stripVersionPrefix, compareVersions, *)
(* isValidVersion, extractVariant, and what they use of strings, fmt and   *)
(* regexp.  Strings are sequences of characters.                           *)
(***************************************************************************)
Digits == <<"0", "1", "2", "3", "4", "5", "6", "7", "8", "9">>

IsDigit(c) == \E i \in DOMAIN Digits : Digits[i] = c

DigitValue(c) == (CHOOSE i \in DOMAIN Digits : Digits[i] = c) - 1

\* strings.TrimPrefix(s, "v")
TrimPrefixV(s) == IF Len(s) > 0 /\ Head(s) = "v" THEN Tail(s) ELSE s

\* strings.Split(s, sep) for a separator of one character.
RECURSIVE Split(_, _)
Split(s, sep) ==
    LET i == IndexOf(s, sep) IN
      IF i = 0 THEN <<s>>
      ELSE <<SubSeq(s, 1, i - 1)>> \o Split(SubSeq(s, i + 1, Len(s)), sep)

\* The longest prefix of s made of the characters in `accepted`.
RECURSIVE Token(_, _)
Token(s, accepted) ==
    IF Len(s) = 0 \/ Head(s) \notin accepted THEN <<>>
    ELSE <<Head(s)>> \o Token(Tail(s), accepted)

\* strconv.ParseInt(digits, 10, 64) of a sequence of decimal digits.
RECURSIVE ParseInt(_)
ParseInt(digits) ==
    IF Len(digits) = 0 THEN 0
    ELSE 10 * ParseInt(SubSeq(digits, 1, Len(digits) - 1))
           + DigitValue(digits[Len(digits)])

\* var num int; fmt.Sscanf(part, "%d", &num), the error dropped: an optional
\* sign, then the longest run of digits and underscores, which ParseInt
\* refuses when it is empty or holds an underscore; num stays 0 on an error,
\* and what follows the number is not read.
Sscanf(part) ==
    LET signed == Len(part) > 0 /\ Head(part) \in {"+", "-"}
        tok    == Token(IF signed THEN Tail(part) ELSE part,
                        {Digits[i] : i \in DOMAIN Digits} \cup {"_"})
    IN  IF Len(tok) = 0 \/ \E i \in DOMAIN tok : tok[i] = "_" THEN 0
        ELSE IF signed /\ Head(part) = "-" THEN 0 - ParseInt(tok)
        ELSE ParseInt(tok)

\* stripVersionPrefix(version)
stripVersionPrefix(version) ==
    LET trimmed == TrimPrefixV(version)
        idx     == IndexOf(trimmed, "-")
    IN  IF idx # 0 THEN SubSeq(trimmed, 1, idx - 1) ELSE trimmed

\* compareVersions(version1, version2) from index idx of the parts on.
RECURSIVE compareParts(_, _, _)
compareParts(parts1, parts2, idx) ==
    IF idx > Len(parts1) /\ idx > Len(parts2) THEN 0
    ELSE LET num1 == IF idx <= Len(parts1) THEN Sscanf(parts1[idx]) ELSE 0
             num2 == IF idx <= Len(parts2) THEN Sscanf(parts2[idx]) ELSE 0
         IN  IF num1 < num2 THEN -1
             ELSE IF num1 > num2 THEN 1
             ELSE compareParts(parts1, parts2, idx + 1)

\* compareVersions that compares the parts as strings.
compareVersionsLexical(version1, version2) ==
    LET v1 == stripVersionPrefix(version1)
        v2 == stripVersionPrefix(version2)
    IN  IF v1 = v2 THEN 0 ELSE IF Less(v1, v2) THEN -1 ELSE 1

\* compareVersions(version1, version2)
compareVersions(version1, version2) ==
    compareParts(Split(stripVersionPrefix(version1), "."),
                 Split(stripVersionPrefix(version2), "."), 1)

\* extractVariant that cuts at the last hyphen.
extractVariantLast(fullVersion) ==
    LET trimmed == TrimPrefixV(fullVersion) IN
      IF \E i \in DOMAIN trimmed : trimmed[i] = "-"
        THEN LET i == CHOOSE i \in DOMAIN trimmed :
                        trimmed[i] = "-" /\ \A j \in (i + 1)..Len(trimmed) : trimmed[j] # "-"
             IN  [version |-> SubSeq(trimmed, 1, i - 1),
                  variant |-> SubSeq(trimmed, i + 1, Len(trimmed))]
        ELSE [version |-> trimmed, variant |-> <<>>]

\* extractVariant(fullVersion): strings.Cut(fullVersion, "-") after the trim.
extractVariant(fullVersion) ==
    LET trimmed == TrimPrefixV(fullVersion)
        i       == IndexOf(trimmed, "-")
    IN  IF i # 0 THEN [version |-> SubSeq(trimmed, 1, i - 1),
                       variant |-> SubSeq(trimmed, i + 1, Len(trimmed))]
        ELSE [version |-> trimmed, variant |-> <<>>]

UpperCase ==
    <<"A", "B", "C", "D", "E", "F", "G", "H", "I", "J", "K", "L", "M",
      "N", "O", "P", "Q", "R", "S", "T", "U", "V", "W", "X", "Y", "Z">>

LowerCase ==
    <<"a", "b", "c", "d", "e", "f", "g", "h", "i", "j", "k", "l", "m",
      "n", "o", "p", "q", "r", "s", "t", "u", "v", "w", "x", "y", "z">>

\* strings.ToLower(s)
ToLower(s) ==
    [i \in DOMAIN s |->
        IF \E k \in DOMAIN UpperCase : UpperCase[k] = s[i]
          THEN LowerCase[CHOOSE k \in DOMAIN UpperCase : UpperCase[k] = s[i]]
          ELSE s[i]]

\* strings.HasPrefix(s, prefix)
HasPrefix(s, prefix) ==
    Len(s) >= Len(prefix) /\ SubSeq(s, 1, Len(prefix)) = prefix

\* strings.Contains(s, substr)
RECURSIVE Contains(_, _)
Contains(s, substr) ==
    IF HasPrefix(s, substr) THEN TRUE
    ELSE IF Len(s) = 0 THEN FALSE
    ELSE Contains(Tail(s), substr)

\* excludePatterns
excludePatterns ==
    <<<<"n", "i", "g", "h", "t", "l", "y">>, <<"d", "e", "v">>, <<"b", "e", "t", "a">>,
      <<"a", "l", "p", "h", "a">>, <<"r", "c">>, <<"t", "e", "s", "t">>,
      <<"s", "n", "a", "p", "s", "h", "o", "t">>,
      <<"b", "u", "i", "l", "d", "e", "r">>>>

\* regexp.MatchString on ^v?[0-9]+\.[0-9]+[0-9.]* followed by `suffix` and $,
\* suffix being empty or the quoted "-" + variant: each run of the pattern is
\* followed by a character outside its class, so it takes all it can.
MatchVersion(tag, suffix) ==
    LET digits == {Digits[i] : i \in DOMAIN Digits}
        drop(str, n) == SubSeq(str, n + 1, Len(str))
        afterV == TrimPrefixV(tag)
        major  == Token(afterV, digits)
        afterMajor == drop(afterV, Len(major))
        minor  == Token(drop(afterMajor, 1), digits)
        afterMinor == drop(afterMajor, 1 + Len(minor))
        more   == Token(afterMinor, digits \cup {"."})
    IN  /\ Len(major) > 0
        /\ Len(afterMajor) > 0 /\ Head(afterMajor) = "."
        /\ Len(minor) > 0
        /\ drop(afterMinor, Len(more)) = suffix

\* isValidVersion that compares the tag as it is spelled with the patterns.
isValidVersionCaseSensitive(tag, variant) ==
    IF \E k \in DOMAIN excludePatterns : Contains(tag, excludePatterns[k]) THEN FALSE
    ELSE IF variant # <<>> THEN MatchVersion(tag, <<"-">> \o variant)
    ELSE MatchVersion(tag, <<>>)

\* isValidVersion(tag, variant)
isValidVersion(tag, variant) ==
    LET lowerTag == ToLower(tag) IN
      IF \E k \in DOMAIN excludePatterns : Contains(lowerTag, excludePatterns[k])
        THEN FALSE
      ELSE IF variant # <<>> THEN MatchVersion(tag, <<"-">> \o variant)
      ELSE MatchVersion(tag, <<>>)


(***************************************************************************)
(* VersionSpec: one call of a function of internal/version on arguments    *)
(* drawn from pools of version strings, tags and variants; for CheckVersion *)
(* the registry lists up to MaxTags tags.                                   *)
(***************************************************************************)
\* The most tags the registry lists.
MaxTags == 2

errNoValidVersionsFound == "no valid versions found"

\* sort.Slice(versions, less) with less(i, j) ==
\* compareVersions(versions[i], versions[j]) < 0: an order of the versions in
\* which no version is less than one before it; equal versions in any order.
SortSliceLexical(versions) ==
    {SortStrings(versions)}

SortSlice(versions) ==
    {sorted \in Perms({versions[i] : i \in DOMAIN versions}) :
        \A i \in DOMAIN sorted, j \in DOMAIN sorted :
            i < j => ~(compareVersions(sorted[j], sorted[i]) < 0)}

\* desc.Digest.String() of remote.Get on imageRef:tag
DigestOfTag(tag) == "sha256:" \o Str(tag)

NoInfo ==
    [CurrentVersion |-> <<>>, LatestVersion |-> <<>>, LatestDigest |-> "",
     UpdateAvailable |-> FALSE]

\* What the registry does to a CheckVersion call.
RegistryOutcomes == {"ok", "bad repository", "list failed", "no digests"}

\* Checker.CheckVersion(imageRef, currentVersion, variant) against a registry
\* that lists `tags`, sort.Slice leaving the versions in the order `sorted`:
\* (info, err), err "" for nil.
CheckVersion(registry, tags, currentVersion, variantArg, sorted) ==
    LET variant  == IF variantArg = <<>> THEN extractVariant(currentVersion).variant
                    ELSE variantArg
        versions == SelectSeq(tags, LAMBDA tag : isValidVersion(tag, variant))
    IN  IF registry = "bad repository"
          THEN [info |-> NoInfo, err |-> "failed to parse repository"]
        ELSE IF registry = "list failed"
          THEN [info |-> NoInfo, err |-> "failed to list tags"]
        ELSE IF Len(versions) = 0
          THEN [info |-> NoInfo, err |-> errNoValidVersionsFound]
        ELSE LET latestVersion == sorted[Len(sorted)] IN
               [info |-> [CurrentVersion  |-> currentVersion,
                          LatestVersion   |-> latestVersion,
                          LatestDigest    |-> IF registry = "no digests" THEN ""
                                              ELSE DigestOfTag(latestVersion),
                          UpdateAvailable |-> currentVersion # latestVersion],
                err |-> ""]

\* The versions CheckVersion sorts.
Versions(tags, currentVersion, variantArg) ==
    SelectSeq(tags, LAMBDA tag :
        isValidVersion(tag, IF variantArg = <<>>
                              THEN extractVariant(currentVersion).variant
                              ELSE variantArg))

ComparePool ==
    {<<"1", ".", "1", "0", ".", "0">>, <<"1", ".", "9", ".", "0">>,
     <<"1", ".", "2", ".", "3">>, <<"v", "1", ".", "2", ".", "3">>,
     <<"2", ".", "0", ".", "0">>, <<"1", ".", "9", ".", "9">>, <<"1", ".", "2">>,
     <<"1", ".", "2", ".", "0">>,
     <<"0", ".", "5", "0", ".", "0", "-", "d", "i", "s", "t", "r", "o", "l", "e", "s", "s", "-", "s", "t", "a", "t", "i", "c">>,
     <<"1", ".", "2", ".", "3", "-", "a", "l", "p", "i", "n", "e">>,
     <<"1", ".", "x", ".", "3">>, <<"l", "a", "t", "e", "s", "t">>, <<>>,
     <<"1", "_", "0", ".", "2">>, <<"v">>, <<"1", "0">>}

TagPool ==
    {<<"1", ".", "2", ".", "3">>, <<"v", "1", ".", "2", ".", "3">>, <<"1", ".", "2">>,
     <<"1">>, <<"1", ".", "2", ".">>,
     <<"1", ".", "2", ".", "3", "-", "a", "l", "p", "i", "n", "e">>,
     <<"v", "1", ".", "2", ".", "3", "-", "a", "l", "p", "i", "n", "e">>,
     <<"1", ".", "2", ".", "3", "-", "a", "l", "p", "i", "n", "e", "-", "s", "l", "i", "m">>,
     <<"1", ".", "2", ".", "3", "-", "R", "C", "1">>,
     <<"1", ".", "2", ".", "3", "-", "r", "c", "1">>,
     <<"1", ".", "2", ".", "3", "-", "B", "e", "t", "a">>,
     <<"n", "i", "g", "h", "t", "l", "y">>, <<"l", "a", "t", "e", "s", "t">>,
     <<"2", ".", "0", ".", "0", "-", "d", "e", "v">>, <<"1", ".", "1", "0", ".", "0">>,
     <<"1", ".", "x", ".", "3">>,
     <<"1", ".", "2", ".", "3", "-", "a", "l", "p", "i", "n", "e", "3">>,
     <<"x", "1", ".", "2", ".", "3">>}

VariantPool ==
    {<<>>, <<"a", "l", "p", "i", "n", "e">>, <<"R", "C", "1">>, <<"r", "c", "1">>,
     <<"a", "l", "p", "i", "n", "e", "-", "s", "l", "i", "m">>, <<"d", "e", "v">>}

ExtractPool ==
    {<<"0", ".", "5", "0", ".", "0", "-", "d", "i", "s", "t", "r", "o", "l", "e", "s", "s", "-", "s", "t", "a", "t", "i", "c">>,
     <<"v", "1", ".", "2", ".", "3">>, <<"1", ".", "2", ".", "3">>,
     <<"v", "1", ".", "2", ".", "3", "-", "a", "l", "p", "i", "n", "e">>,
     <<"2", ".", "9", ".", "1", "3", "-", "a", "l", "p", "i", "n", "e">>,
     <<"v", "v", "1">>, <<"v">>, <<>>, <<"-", "a", "l", "p", "i", "n", "e">>,
     <<"l", "a", "t", "e", "s", "t">>, <<"v", "-">>, <<"1", ".", "2", ".", "3", "-">>}

CurrentVersions ==
    {<<"1", ".", "2", ".", "3">>, <<"v", "1", ".", "2", ".", "3">>,
     <<"1", ".", "1", "0", ".", "0">>,
     <<"1", ".", "9", ".", "0", "-", "a", "l", "p", "i", "n", "e">>,
     <<"l", "a", "t", "e", "s", "t">>}

RegistryTags ==
    {<<"1", ".", "2", ".", "3">>, <<"v", "1", ".", "2", ".", "3">>,
     <<"1", ".", "1", "0", ".", "0">>, <<"1", ".", "9", ".", "0">>,
     <<"1", ".", "1", "0", ".", "0", "-", "a", "l", "p", "i", "n", "e">>,
     <<"1", ".", "9", ".", "0", "-", "a", "l", "p", "i", "n", "e">>,
     <<"1", ".", "2", ".", "3", "-", "r", "c", "1">>, <<"l", "a", "t", "e", "s", "t">>,
     <<"1", ".", "1", "0">>}

\* The lists of tags of a repository: no tag twice.
TagLists ==
    {tags \in UNION {[1..n -> RegistryTags] : n \in 0..MaxTags} :
        \A i \in DOMAIN tags, j \in DOMAIN tags : i # j => tags[i] # tags[j]}

VersionCall(fn, a, b, tags, registry) ==
    [pc |-> "call", fn |-> fn, a |-> a, b |-> b, tags |-> tags,
     registry |-> registry, out |-> Nil]

VersionInit ==
    /\ PlanInit
    /\ EngineIdle
    /\ PmlIdle /\ CeIdle /\ ScIdle /\ AuIdle
    /\ StIdle /\ InsIdle
    /\ \/ \E a \in ComparePool, b \in ComparePool :
            ver = VersionCall("compareVersions", a, b, <<>>, "ok")
       \/ \E tag \in TagPool, variant \in VariantPool :
            ver = VersionCall("isValidVersion", tag, variant, <<>>, "ok")
       \/ \E fullVersion \in ExtractPool :
            ver = VersionCall("extractVariant", fullVersion, <<>>, <<>>, "ok")
       \/ \E currentVersion \in CurrentVersions, variant \in {<<>>, <<"a", "l", "p", "i", "n", "e">>},
             tags \in TagLists, registry \in RegistryOutcomes :
            ver = VersionCall("CheckVersion", currentVersion, variant, tags, registry)

compareVersionsCall ==
    /\ ver.pc = "call" /\ ver.fn = "compareVersions"
    /\ ver' = [ver EXCEPT !.pc = "done",
                          !.out = [forth |-> compareVersions(ver.a, ver.b),
                                   back  |-> compareVersions(ver.b, ver.a)]]
    /\ UNCHANGED <<planVars, engineVars, pml, ce, sc, au, st, ins>>

isValidVersionCall ==
    /\ ver.pc = "call" /\ ver.fn = "isValidVersion"
    /\ ver' = [ver EXCEPT !.pc = "done", !.out = isValidVersion(ver.a, ver.b)]
    /\ UNCHANGED <<planVars, engineVars, pml, ce, sc, au, st, ins>>

extractVariantCall ==
    /\ ver.pc = "call" /\ ver.fn = "extractVariant"
    /\ ver' = [ver EXCEPT !.pc = "done", !.out = extractVariant(ver.a)]
    /\ UNCHANGED <<planVars, engineVars, pml, ce, sc, au, st, ins>>

CheckVersionCall ==
    /\ ver.pc = "call" /\ ver.fn = "CheckVersion"
    /\ \E sorted \in SortSlice(Versions(ver.tags, ver.a, ver.b)) :
         ver' = [ver EXCEPT !.pc = "done",
                            !.out = CheckVersion(ver.registry, ver.tags, ver.a, ver.b,
                                                 sorted)]
    /\ UNCHANGED <<planVars, engineVars, pml, ce, sc, au, st, ins>>

VersionNext ==
    \/ compareVersionsCall
    \/ isValidVersionCall
    \/ extractVariantCall
    \/ CheckVersionCall

VersionSpec == VersionInit /\ [][VersionNext]_vars


(***************************************************************************)
(* Properties of internal/version.                                         *)
(***************************************************************************)
\* The numbers a well-formed version string of the pool stands for.
ExpectedParts ==
    "1.10.0" :> <<1, 10, 0>>
      @@ "1.9.0" :> <<1, 9, 0>>
      @@ "1.2.3" :> <<1, 2, 3>>
      @@ "v1.2.3" :> <<1, 2, 3>>
      @@ "2.0.0" :> <<2, 0, 0>>
      @@ "1.9.9" :> <<1, 9, 9>>
      @@ "1.2" :> <<1, 2>>
      @@ "1.2.0" :> <<1, 2, 0>>
      @@ "0.50.0-distroless-static" :> <<0, 50, 0>>
      @@ "1.2.3-alpine" :> <<1, 2, 3>>
      @@ "10" :> <<10>>

\* The i-th number of parts, 0 when it has none.
PartOr0(parts, i) == IF i <= Len(parts) THEN parts[i] ELSE 0

\* The order of two sequences of numbers: the first position where they
\* differ decides.
ExpectedOrder(x, y) ==
    LET n    == IF Len(x) > Len(y) THEN Len(x) ELSE Len(y)
        diff == {i \in 1..n : PartOr0(x, i) # PartOr0(y, i)}
    IN  IF diff = {} THEN 0
        ELSE LET k == CHOOSE i \in diff : \A j \in diff : i <= j IN
               IF PartOr0(x, k) > PartOr0(y, k) THEN 1 ELSE -1

Compared(a, b) ==
    /\ ver.pc = "done" /\ ver.fn = "compareVersions"
    /\ Str(ver.a) = a /\ Str(ver.b) = b

\* C14: compareVersions(a, b) is -1, 0 or 1 and the opposite of
\* compareVersions(b, a); for versions made of numbers, with or without a
\* leading v and a variant suffix, it is the order of their numbers position by
\* position, a missing one being 0 and the first difference deciding; so
\* "1.10.0" is greater than "1.9.0", "1.2.3" equals "1.2.3" and "2.0.0" is
\* greater than "1.9.9".
C14_CompareVersions ==
    (ver.pc = "done" /\ ver.fn = "compareVersions") =>
        /\ ver.out.forth \in {-1, 0, 1}
        /\ ver.out.back = 0 - ver.out.forth
        /\ (Str(ver.a) \in DOMAIN ExpectedParts /\ Str(ver.b) \in DOMAIN ExpectedParts) =>
              ver.out.forth = ExpectedOrder(ExpectedParts[Str(ver.a)],
                                            ExpectedParts[Str(ver.b)])
        /\ Compared("1.10.0", "1.9.0") => ver.out.forth > 0
        /\ Compared("1.2.3", "1.2.3") => ver.out.forth = 0
        /\ Compared("2.0.0", "1.9.9") => ver.out.forth > 0

\* "1.10.0" was compared with "1.9.0" and found greater.
C14_Witness ==
    /\ Compared("1.10.0", "1.9.0")
    /\ ver.out = [forth |-> 1, back |-> -1]

\* The tag holds `word` somewhere, whatever the case of its letters.
Holds(tag, word) ==
    \E i \in 1..Len(tag) :
       /\ i + Len(word) - 1 <= Len(tag)
       /\ \A k \in 1..Len(word) :
            \/ tag[i + k - 1] = word[k]
            \/ \E u \in DOMAIN UpperCase :
                 UpperCase[u] = tag[i + k - 1] /\ LowerCase[u] = word[k]

Denylist ==
    {<<"n", "i", "g", "h", "t", "l", "y">>, <<"d", "e", "v">>, <<"b", "e", "t", "a">>,
     <<"a", "l", "p", "h", "a">>, <<"r", "c">>, <<"t", "e", "s", "t">>,
     <<"s", "n", "a", "p", "s", "h", "o", "t">>, <<"b", "u", "i", "l", "d", "e", "r">>}

\* number "." number, then digits and dots: the numeric-dot pattern.
NumericDot(str) ==
    \E dot \in 2..(Len(str) - 1) :
       /\ str[dot] = "."
       /\ \A i \in 1..(dot - 1) : IsDigit(str[i])
       /\ IsDigit(str[dot + 1])
       /\ \A i \in (dot + 2)..Len(str) : IsDigit(str[i]) \/ str[i] = "."

\* The tag is an optional v, the numeric-dot pattern and then `suffix`.
NumericDotThen(tag, suffix) ==
    /\ Len(tag) >= Len(suffix)
    /\ SubSeq(tag, Len(tag) - Len(suffix) + 1, Len(tag)) = suffix
    /\ LET core == SubSeq(tag, 1, Len(tag) - Len(suffix)) IN
         \/ NumericDot(core)
         \/ Len(core) > 0 /\ core[1] = "v" /\ NumericDot(Tail(core))

\* C15: isValidVersion(tag, variant) is true exactly when the tag holds none
\* of the words of the denylist, in whatever case, and is an optional v and
\* the numeric-dot pattern followed by "-" and the variant when a variant is
\* given, by nothing when none is given.
C15_IsValidVersion ==
    (ver.pc = "done" /\ ver.fn = "isValidVersion") =>
        (ver.out <=>
            /\ \A word \in Denylist : ~Holds(ver.a, word)
            /\ NumericDotThen(ver.a, IF ver.b = <<>> THEN <<>> ELSE <<"-">> \o ver.b))

\* The tag "1.2.3-RC1" was refused for the variant "RC1", which it ends in.
C15_Witness ==
    /\ ver.pc = "done" /\ ver.fn = "isValidVersion"
    /\ Str(ver.a) = "1.2.3-RC1"
    /\ Str(ver.b) = "RC1"
    /\ ver.out = FALSE

\* C16: CheckVersion on a registry that lists the tags returns an error and no
\* result when it retains no tag; otherwise its latestVersion is a retained
\* tag than which no retained tag compares greater, and its updateAvailable
\* is true exactly when the strings currentVersion and latestVersion differ.
C16_CheckVersion ==
    (ver.pc = "done" /\ ver.fn = "CheckVersion"
        /\ ver.registry \in {"ok", "no digests"}) =>
        LET variant  == IF ver.b # <<>> THEN ver.b
                        ELSE IF IndexOf(TrimPrefixV(ver.a), "-") = 0 THEN <<>>
                        ELSE SubSeq(TrimPrefixV(ver.a),
                                    IndexOf(TrimPrefixV(ver.a), "-") + 1,
                                    Len(TrimPrefixV(ver.a)))
            retained == {ver.tags[i] : i \in {j \in DOMAIN ver.tags :
                                                isValidVersion(ver.tags[j], variant)}}
            info     == ver.out.info
        IN  IF retained = {}
              THEN ver.out = [info |-> NoInfo, err |-> errNoValidVersionsFound]
              ELSE /\ ver.out.err = ""
                   /\ info.CurrentVersion = ver.a
                   /\ info.LatestVersion \in retained
                   /\ \A tag \in retained :
                        compareVersions(tag, info.LatestVersion) <= 0
                   /\ info.UpdateAvailable <=> Str(ver.a) # Str(info.LatestVersion)

\* The registry listed "1.9.0" after "1.10.0": the latest version is
\* "1.10.0", which the current version "v1.2.3" differs from.
C16_Witness ==
    /\ ver.pc = "done" /\ ver.fn = "CheckVersion"
    /\ Len(ver.tags) = 2
    /\ Str(ver.tags[1]) = "1.10.0" /\ Str(ver.tags[2]) = "1.9.0"
    /\ Str(ver.a) = "v1.2.3"
    /\ ver.out.err = ""
    /\ Str(ver.out.info.LatestVersion) = "1.10.0"
    /\ ver.out.info.UpdateAvailable

Extracted(fullVersion) ==
    /\ ver.pc = "done" /\ ver.fn = "extractVariant"
    /\ Str(ver.a) = fullVersion

\* C17: extractVariant returns ("0.50.0", "distroless-static") for
\* "0.50.0-distroless-static" and ("1.2.3", "") for "v1.2.3"; for an input
\* without hyphen the variant is empty and the version is the input without
\* one leading v; for an input with a hyphen the version holds no hyphen and
\* version, "-" and variant spell the input without one leading v.
C17_ExtractVariant ==
    (ver.pc = "done" /\ ver.fn = "extractVariant") =>
        LET input == IF Len(ver.a) > 0 /\ ver.a[1] = "v"
                       THEN SubSeq(ver.a, 2, Len(ver.a)) ELSE ver.a
        IN  /\ Extracted("0.50.0-distroless-static") =>
                 /\ Str(ver.out.version) = "0.50.0"
                 /\ Str(ver.out.variant) = "distroless-static"
            /\ Extracted("v1.2.3") =>
                 /\ Str(ver.out.version) = "1.2.3"
                 /\ Str(ver.out.variant) = ""
            /\ \A i \in DOMAIN ver.out.version : ver.out.version[i] # "-"
            /\ IF \E i \in DOMAIN ver.a : ver.a[i] = "-"
                 THEN ver.out.version \o <<"-">> \o ver.out.variant = input
                 ELSE ver.out.variant = <<>> /\ ver.out.version = input

\* "0.50.0-distroless-static" was cut at its first hyphen.
C17_Witness ==
    /\ Extracted("0.50.0-distroless-static")
    /\ Str(ver.out.version) = "0.50.0"
    /\ Str(ver.out.variant) = "distroless-static"

\* What CheckVersion can return for the tags of the call listed in any order:
\* the results of every listing and every order sort.Slice may leave.
ResultsOverListings ==
    {CheckVersion(ver.registry, tags, ver.a, ver.b, sorted) :
        <<tags, sorted>> \in
            UNION {{<<t, o>> : o \in SortSlice(Versions(t, ver.a, ver.b))} :
                      t \in Perms({ver.tags[i] : i \in DOMAIN ver.tags})}}

\* Two tags that CheckVersion retains compare equal.
EqualRetained ==
    \E i \in DOMAIN ver.tags, j \in DOMAIN ver.tags :
        /\ i # j
        /\ {ver.tags[i], ver.tags[j]} \subseteq
                {t \in RegistryTags : \E k \in DOMAIN Versions(ver.tags, ver.a, ver.b) :
                                          Versions(ver.tags, ver.a, ver.b)[k] = t}
        /\ compareVersions(ver.tags[i], ver.tags[j]) = 0

\* C33: for a fixed set of tags and a fixed current version, CheckVersion's
\* LatestVersion and UpdateAvailable are the same in whatever order the
\* registry lists the tags, also when two retained tags compare equal.
C33_OrderIndependent ==
    (ver.pc = "done" /\ ver.fn = "CheckVersion" /\ ver.out.err = "") =>
        \A other \in ResultsOverListings :
            /\ other.info.LatestVersion = ver.out.info.LatestVersion
            /\ other.info.UpdateAvailable = ver.out.info.UpdateAvailable

\* The same, for calls in which no two retained tags compare equal.
C33_OrderIndependentUnlessEqual ==
    (ver.pc = "done" /\ ver.fn = "CheckVersion" /\ ver.out.err = ""
        /\ ~EqualRetained) =>
        \A other \in ResultsOverListings :
            /\ other.info.LatestVersion = ver.out.info.LatestVersion
            /\ other.info.UpdateAvailable = ver.out.info.UpdateAvailable

\* The registry lists "v1.2.3" and "1.2.3", which compare equal, and the
\* current version is "1.2.3": this call found "v1.2.3" latest and an update
\* available, another listing finds "1.2.3" and none.
C33_Witness ==
    /\ ver.pc = "done" /\ ver.fn = "CheckVersion"
    /\ {Str(ver.tags[i]) : i \in DOMAIN ver.tags} = {"1.2.3", "v1.2.3"}
    /\ Str(ver.a) = "1.2.3"
    /\ ver.out.err = ""
    /\ Str(ver.out.info.LatestVersion) = "v1.2.3"
    /\ ver.out.info.UpdateAvailable
    /\ \E other \in ResultsOverListings :
          /\ Str(other.info.LatestVersion) = "1.2.3"
          /\ ~other.info.UpdateAvailable


(***************************************************************************)
(* AuditSpec: an Audit of an image is built, and Audit.execute calls       *)
(* Auditor.AuditImage (internal/audit) with the Audit's rule set; dockle   *)
(* fails, or reports findings of any levels.                               *)
(***************************************************************************)
\* The most findings dockle reports.
MaxDetails == 2

\* The levels of dockle's findings.
DockleLevels == {"FATAL", "WARN", "INFO", "SKIP", "PASS"}

DockleDetails == UNION {[1..n -> DockleLevels] : n \in 0..MaxDetails}

\* for _, detail := range dockleResult.Details: the findings of a level.
Count(details, level) == Cardinality({i \in DOMAIN details : details[i] = level})

\* A rule-set mapping under which only FATAL findings fail.
failingIssuesFatalOnly(ruleSet, fatalCount, warnCount) == fatalCount

\* switch opts.RuleSet
failingIssues(ruleSet, fatalCount, warnCount) ==
    CASE ruleSet = "strict"      -> fatalCount + warnCount
      [] ruleSet = "recommended" -> fatalCount
      [] ruleSet = "minimal"     -> fatalCount
      [] OTHER                   -> fatalCount + warnCount

AuditImageOutcomes == {"install failed", "parse failed", "command failed", "ok"}

\* Auditor.AuditImage: an error, or the result computed from the findings.
AuditImage(ruleSet, details, outcome) ==
    CASE outcome = "install failed" ->
           [err |-> "failed to ensure dockle is installed", ImageIssues |-> 0,
            Passed |-> FALSE]
      [] outcome = "parse failed" ->
           [err |-> "failed to parse dockle output", ImageIssues |-> 0, Passed |-> FALSE]
      [] outcome = "command failed" ->
           [err |-> "dockle command failed", ImageIssues |-> 0, Passed |-> FALSE]
      [] OTHER ->
           LET fatalCount == Count(details, "FATAL")
               warnCount  == Count(details, "WARN")
               infoCount  == Count(details, "INFO")
           IN  [err |-> "", ImageIssues |-> fatalCount + warnCount + infoCount,
                Passed |-> failingIssues(ruleSet, fatalCount, warnCount) = 0]

\* No AuditImage call yet.
AuditNotCalled ==
    [pc |-> "idle", ruleSet |-> "", details |-> <<>>, err |-> "",
     ImageIssues |-> 0, Passed |-> FALSE]

AuditInit ==
    /\ PlanInit
    /\ EngineIdle
    /\ PmlIdle /\ CeIdle /\ ScIdle /\ VerIdle
    /\ StIdle /\ InsIdle
    /\ au = AuditNotCalled

\* The plan file builds one Audit of an image.
AuditBuilt(dockerfile, ruleSet) ==
    /\ Registered = 0
    /\ AuditBuilderBuild(dockerfile, "tagged", ruleSet)

\* Audit.execute's call auditor.AuditImage(imageRef, opts), opts.RuleSet
\* being string(auditJob.ruleSet).
AuditImageCall(details, outcome) ==
    /\ au.pc = "idle"
    /\ Len(plan.audits) = 1
    /\ LET ruleSet == plan.audits[1].ruleSet
           r       == AuditImage(ruleSet, details, outcome)
       IN  au' = [pc |-> "done", ruleSet |-> ruleSet, details |-> details,
                  err |-> r.err, ImageIssues |-> r.ImageIssues, Passed |-> r.Passed]
    /\ UNCHANGED <<planVars, engineVars, pml, ce, sc, ver, st, ins>>

AuditNext ==
    \/ \E dockerfile \in DockerfileArgs, ruleSet \in RuleSetValueArgs :
            AuditBuilt(dockerfile, ruleSet)
    \/ \E details \in DockleDetails, outcome \in AuditImageOutcomes :
            AuditImageCall(details, outcome)

AuditSpec == AuditInit /\ [][AuditNext]_vars

\* The findings of the call have one of the given levels.
Found(levels) == \E i \in DOMAIN au.details : au.details[i] \in levels

\* C27: an image audit that produced a result fails if and only if, with the
\* rule set strict, there is a FATAL or WARN finding and, with recommended or
\* minimal, a FATAL finding, so INFO findings alone never fail it; an Audit
\* built without rule set is audited with strict.
C27_RuleSetLevels ==
    /\ [](\A i \in DOMAIN plan.audits : plan.audits[i].ruleSet # "")
    /\ []((au.pc = "done" /\ au.err = "") =>
            /\ au.ruleSet = "strict" => (~au.Passed <=> Found({"FATAL", "WARN"}))
            /\ au.ruleSet \in {"recommended", "minimal"} =>
                  (~au.Passed <=> Found({"FATAL"}))
            /\ ~Found({"FATAL", "WARN"}) => au.Passed)
    /\ [][\A dockerfile \in DockerfileArgs :
            AuditBuilt(dockerfile, "") => plan'.audits[1].ruleSet = "strict"]_vars

\* An audit with the rule set recommended passed with a WARN finding.
C27_Witness ==
    /\ au.pc = "done" /\ au.err = ""
    /\ au.ruleSet = "recommended"
    /\ au.details = <<"WARN", "INFO">>
    /\ au.Passed


(***************************************************************************)
(* StripSpec: stripTag (internal/sync/sync.go) applied to a source         *)
(* reference, and again to its result.  The references are put together    *)
(* from a host (with or without port), a repository path, a tag and a      *)
(* digest, each present or absent.                                         *)
(***************************************************************************)
StripHosts ==
    {<<>>, <<"h", "/">>, <<"h", ".", "i", "o", "/">>, <<"h", ":", "5", "/">>}

StripPaths == {<<"r">>, <<"o", "/", "r">>}

StripTags == {<<>>, <<":", "t">>, <<":", "1", ".", "2">>}

StripDigests == {<<>>, <<"@", "s", ":", "a">>}

StripInit ==
    /\ PlanInit
    /\ EngineIdle
    /\ PmlIdle /\ CeIdle /\ ScIdle /\ VerIdle /\ AuIdle /\ InsIdle
    /\ \E host \in StripHosts, path \in StripPaths, tag \in StripTags,
          digest \in StripDigests :
         st = [pc |-> "stripTag", repository |-> host \o path, tag |-> tag,
               digest |-> digest, imageRef |-> host \o path \o tag \o digest,
               out |-> <<>>, again |-> <<>>]

\* stripTag(srcImage), as syncMultiPlatform calls it for a platform copy.
stripTagCall ==
    /\ st.pc = "stripTag"
    /\ st' = [st EXCEPT !.pc = "stripped", !.out = stripTag(st.imageRef)]
    /\ UNCHANGED <<planVars, engineVars, pml, ce, sc, ver, au, ins>>

\* stripTag applied to its own result.
stripTagAgain ==
    /\ st.pc = "stripped"
    /\ st' = [st EXCEPT !.pc = "done", !.again = stripTag(st.out)]
    /\ UNCHANGED <<planVars, engineVars, pml, ce, sc, ver, au, ins>>

StripNext ==
    \/ stripTagCall
    \/ stripTagAgain

StripSpec == StripInit /\ [][StripNext]_vars

\* C31: for every source reference, also name:tag@digest and a host with a
\* port, stripTag returns the bare repository name, host and port kept, with
\* no tag and no digest, and stripTag of the result is the result.
C31_StripTag ==
    /\ st.pc \in {"stripped", "done"} =>
          /\ st.out = st.repository
          /\ \A i \in DOMAIN st.out : st.out[i] # "@"
    /\ st.pc = "done" => st.again = st.out

\* stripTag of h:5/r:t@s:a is h:5/r:t, and stripTag of that is h:5/r.
C31_Witness ==
    /\ st.pc = "done"
    /\ Str(st.imageRef) = "h:5/r:t@s:a"
    /\ Str(st.out) = "h:5/r:t"
    /\ Str(st.again) = "h:5/r"


(***************************************************************************)
(* InstallerSpec: goroutines call Ensure(tool) for one tool on one         *)
(* Installer (internal/tools/installer.go), each up to MaxEnsureCalls      *)
(* times; the tool is on the PATH or not, go install fails or succeeds,    *)
(* and the directory go install writes to is on the PATH or not.           *)
(***************************************************************************)
\* The goroutines that call Ensure.
MaxCallers == 2

\* The most calls of Ensure one goroutine makes.
MaxEnsureCalls == 2

Callers == 1..MaxCallers

\* Tool.Name of the tool asked for.
ToolName == "trivy"

errToolNotInPath == "tool installed but not found in PATH"

\* exec.LookPath(tool.Name): the path of the binary found in a directory of
\* PATH, "" for an error.
LookPath ==
    IF ins.inPath THEN "/usr/local/bin/" \o ToolName
    ELSE IF ins.goInstalls > 0 /\ ins.gobinInPath THEN "/root/go/bin/" \o ToolName
    ELSE ""

\* NewInstaller(log), and the environment of the process.
InstallerInit ==
    /\ PlanInit
    /\ EngineIdle
    /\ PmlIdle /\ CeIdle /\ ScIdle /\ VerIdle /\ AuIdle /\ StIdle
    /\ \E inPath \in BOOLEAN, gobinInPath \in BOOLEAN :
         ins = [installed   |-> FALSE,
                mu          |-> 0,
                pc          |-> [c \in Callers |-> "call"],
                returned    |-> [c \in Callers |-> <<>>],
                inPath      |-> inPath,
                gobinInPath |-> gobinInPath,
                goInstalls  |-> 0]

\* return path, err with the deferred installer.mu.Unlock().
EnsureReturn(c, path, err, installed) ==
    [ins EXCEPT !.pc[c] = "call", !.mu = 0, !.installed = installed,
                !.returned[c] = Append(@, [path |-> path, err |-> err])]

\* installer.mu.Lock()
EnsureLock(c) ==
    /\ ins.pc[c] = "call"
    /\ Len(ins.returned[c]) < MaxEnsureCalls
    /\ ins.mu = 0
    /\ ins' = [ins EXCEPT !.mu = c, !.pc[c] = "locked"]
    /\ UNCHANGED <<planVars, engineVars, pml, ce, sc, ver, au, st>>

\* The session check and the first exec.LookPath.
EnsureLookPath(c) ==
    /\ ins.pc[c] = "locked"
    /\ ins' = IF ins.installed THEN EnsureReturn(c, ToolName, "", TRUE)
              ELSE IF LookPath # "" THEN EnsureReturn(c, LookPath, "", TRUE)
              ELSE [ins EXCEPT !.pc[c] = "install"]
    /\ UNCHANGED <<planVars, engineVars, pml, ce, sc, ver, au, st>>

\* installer.install(tool): go install fails or succeeds.
EnsureInstall(c, installOk) ==
    /\ ins.pc[c] = "install"
    /\ ins' = IF ~installOk
                THEN EnsureReturn(c, "", "failed to install " \o ToolName, ins.installed)
                ELSE [ins EXCEPT !.pc[c] = "verify", !.goInstalls = @ + 1]
    /\ UNCHANGED <<planVars, engineVars, pml, ce, sc, ver, au, st>>

\* The second exec.LookPath, after the installation.
EnsureVerify(c) ==
    /\ ins.pc[c] = "verify"
    /\ ins' = IF LookPath = ""
                THEN EnsureReturn(c, "", errToolNotInPath \o ": " \o ToolName, ins.installed)
                ELSE EnsureReturn(c, LookPath, "", TRUE)
    /\ UNCHANGED <<planVars, engineVars, pml, ce, sc, ver, au, st>>

InstallerNext ==
    \/ \E c \in Callers : EnsureLock(c)
    \/ \E c \in Callers : EnsureLookPath(c)
    \/ \E c \in Callers, installOk \in BOOLEAN : EnsureInstall(c, installOk)
    \/ \E c \in Callers : EnsureVerify(c)

InstallerSpec == InstallerInit /\ [][InstallerNext]_vars

\* The paths the successful calls of Ensure returned.
EnsuredPaths ==
    {ins.returned[c][i].path :
        <<c, i>> \in {<<c, i>> \in Callers \X (1..MaxEnsureCalls) :
                        /\ i \in DOMAIN ins.returned[c]
                        /\ ins.returned[c][i].err = ""}}

\* C35: under any interleaving of concurrent Ensure calls for the same tool
\* on one Installer, the tool is installed at most once, and every
\* successful call, the first and the cached later ones, returns the same
\* path to the tool binary.
C35_InstallOnceSamePath ==
    /\ ins.goInstalls <= 1
    /\ Cardinality(EnsuredPaths) <= 1

\* At most one goroutine is between Lock and Unlock, and it is the holder
\* of the mutex; the tool is marked installed only once a LookPath found it.
EnsureMutualExclusion ==
    /\ \A c \in Callers : ins.pc[c] # "call" <=> ins.mu = c
    /\ ins.installed => LookPath # ""

\* When the directory go install writes to is on the PATH, go install runs
\* successfully at most once.
InstallOnceWhenOnPath ==
    ins.gobinInPath => ins.goInstalls <= 1

\* The tool was on the PATH: the first call returned the path LookPath found,
\* a later call of the other goroutine the bare tool name.
C35_Witness ==
    /\ ins.goInstalls = 0
    /\ ins.returned[1] = <<[path |-> "/usr/local/bin/trivy", err |-> ""]>>
    /\ ins.returned[2] = <<[path |-> "trivy", err |-> ""]>>
    /\ ins.mu = 0

====
